---- MODULE Spec2Model ----
(***************************************************************************)
(* Mescamit: CvarMasked / CvarObfuscated (src/cpp/CvarObfuscated.hpp).     *)
(*                                                                         *)
(* The header holds two variants of the container.  "variant = 1" is the   *)
(* first one (lines 88-946: eight separately masked specifications, _get   *)
(* throws on an empty container), "variant = 2" the later one (lines       *)
(* 1051-1917: SspecsVal/SspecsKey blocks, key read offset, performance     *)
(* mode, _get initialises an empty container with T()).                    *)
(*                                                                         *)
(* The process heap is an arena of slots; addresses are integers, a chain  *)
(* cell stores the signed distance to the next address exactly as          *)
(* _ptrFold computes it.  rand() is a deterministic generator stepped from *)
(* a seed; the seed in force when an operation starts is an input.         *)
(***************************************************************************)
EXTENDS Integers, Sequences, FiniteSets, TLC

VARIABLES
    variant,        \* 1: first variant of the header, 2: later variant
    T,              \* the template argument of the container
    m_bPerfMode,    \* CvarObfuscated::m_bPerfMode
    m_bEmpty,       \* CvarObfuscated::m_bEmpty
    m_arrVarAddr,   \* CvarObfuscated::m_arrVarAddr (address of the array block, 0 = nullptr)
    m_arrConvert,   \* CvarObfuscated::m_arrConvert (address of the array block, 0 = nullptr)
    m_mtx,          \* CvarObfuscated::m_mtx: 0 = unlocked, otherwise the owning thread
    heap,           \* the process heap: slot -> block
    fault,          \* "none", or the first undefined memory operation that happened
    alive,          \* FALSE once the destructor has run
    plain,          \* what a plain variable of type T put through the same operations holds
    last,           \* the last completed public operation: name, operand, result
    policy,         \* the allocator's placement policy in this run
    thrown,         \* has an operation on the container raised an exception
    pc,             \* per thread: position inside a public operation (stepwise specifications)
    loc             \* per thread: the locals of the operation in progress

vars == <<variant, T, m_bPerfMode, m_bEmpty, m_arrVarAddr, m_arrConvert, m_mtx,
          heap, fault, alive, plain, last, policy, thrown, pc, loc>>

-----------------------------------------------------------------------------
(* Bounds of the model *)

\* number of slots of the heap arena
ArenaSlots == 32

\* length of the long text value (at least the range of a uint8_t counter)
LongLen == 256

\* number of threads of the stepwise specifications
NThreads == 2

-----------------------------------------------------------------------------
(* Machine arithmetic *)

\* number of values of a uint8_t
U8Mod == 256

\* std::numeric_limits<uint8_t>::max()
U8Max == 255

\* sizeof(intptr_t) on the 64-bit target
PtrSize == 8

\* RAND_MAX of the C runtime the header is written for
RandMax == 32767

Min(S) == CHOOSE x \in S : \A y \in S : x <= y
Max(S) == CHOOSE x \in S : \A y \in S : x >= y

\* the sequence s with every element evaluated once
Tuple(s) == s \o <<>>

\* F applied to the value of e, which is evaluated once however often F uses it
With(e, F(_)) == F(e)

\* C++ integer division: truncation towards zero
TruncDiv(a, b) ==
    IF (a >= 0) = (b > 0) THEN (IF a >= 0 THEN a \div b ELSE (-a) \div (-b))
    ELSE -((IF a >= 0 THEN a ELSE -a) \div (IF b > 0 THEN b ELSE -b))

\* C++ remainder: a - (a / b) * b
TruncMod(a, b) == a - TruncDiv(a, b) * b

RECURSIVE BitXor(_, _)
\* a ^ b on non-negative integers
BitXor(a, b) ==
    IF a = 0 THEN b
    ELSE IF b = 0 THEN a
    ELSE (((a % 2) + (b % 2)) % 2) + 2 * BitXor(a \div 2, b \div 2)

RECURSIVE BitAnd(_, _)
\* a & b on non-negative integers
BitAnd(a, b) ==
    IF a = 0 \/ b = 0 THEN 0
    ELSE ((a % 2) * (b % 2)) + 2 * BitAnd(a \div 2, b \div 2)

RECURSIVE BitOr(_, _)
\* a | b on non-negative integers
BitOr(a, b) ==
    IF a = 0 THEN b
    ELSE IF b = 0 THEN a
    ELSE (IF (a % 2) + (b % 2) > 0 THEN 1 ELSE 0) + 2 * BitOr(a \div 2, b \div 2)

-----------------------------------------------------------------------------
(* int32_t: object representation and native operators *)

\* the four bytes of an int32_t, least significant first (two's complement)
I32Bytes(x) == Tuple([i \in 1..4 |-> (x \div (256 ^ (i - 1))) % 256])

\* the int32_t whose object representation is b[1..4]
I32FromBytes(b) ==
    b[1] + 256 * b[2] + 65536 * b[3]
    + 16777216 * (IF b[4] >= 128 THEN b[4] - 256 ELSE b[4])

I32Bitwise(op, x, k) ==
    LET bx == I32Bytes(x)
        bk == I32Bytes(k)
    IN I32FromBytes(Tuple([i \in 1..4 |->
           CASE op = "&" -> BitAnd(bx[i], bk[i])
             [] op = "|" -> BitOr(bx[i], bk[i])
             [] op = "^" -> BitXor(bx[i], bk[i])]))

\* x op k with the semantics of the built-in operators on int32_t
NativeOp(op, x, k) ==
    CASE op = "+"  -> x + k
      [] op = "-"  -> x - k
      [] op = "*"  -> x * k
      [] op = "/"  -> TruncDiv(x, k)
      [] op = "%"  -> TruncMod(x, k)
      [] op = "&"  -> I32Bitwise("&", x, k)
      [] op = "|"  -> I32Bitwise("|", x, k)
      [] op = "^"  -> I32Bitwise("^", x, k)
      [] op = "<<" -> x * (2 ^ k)
      [] op = ">>" -> x \div (2 ^ k)

-----------------------------------------------------------------------------
(* rand(): the process-wide generator *)

\* seeds the generator can be in when an operation starts (srand, or earlier draws)
Seeds == {1, 13}

\* the generator states a write of SpecLayout is started in
LayoutSeeds == {3, 77, 1000, 5003, 20011, 33333, 47777, 60013}

\* variant: a generator that returns the same number at every call
RandStep_stuck(s) == 74

\* one step of the generator state
RandStep(s) == (s * 75 + 74) % 65537

RECURSIVE RandResults(_, _)
\* the results of the next n calls of rand() from generator state s
RandResults(s, n) ==
    IF n = 0 THEN <<>>
    ELSE <<RandStep(s) % (RandMax + 1)>> \o RandResults(RandStep(s), n - 1)

RECURSIVE RandAfter(_, _)
\* the generator state n calls after state s
RandAfter(s, n) == IF n = 0 THEN s ELSE RandAfter(RandStep(s), n - 1)

RECURSIVE RandBlocks(_, _)
\* the results of the next 16 * k calls of rand() from generator state s
RandBlocks(s, k) ==
    IF k = 0 THEN <<>>
    ELSE RandResults(s, 16) \o RandBlocks(RandAfter(s, 16), k - 1)

\* the results of the first 512 calls of rand() from each generator state an
\* operation is started in (more than one operation makes)
RandTable == [s \in Seeds \cup LayoutSeeds |-> RandBlocks(s, 32)]

\* rand() % 256 for the same calls
RandByteTable ==
    [s \in Seeds \cup LayoutSeeds |->
        Tuple([i \in 1..Len(RandTable[s]) |-> RandTable[s][i] % 256])]

\* the result of the (k+1)-th call of rand() after the current one
Rand(m, k) == RandTable[m.seed][m.rc + k + 1]

\* the machine after n calls of rand()
Drawn(m, n) == [m EXCEPT !.rc = @ + n]

\* rand() % 256, n times
RandBytes(m, n) == SubSeq(RandByteTable[m.seed], m.rc + 1, m.rc + n)

-----------------------------------------------------------------------------
(* The heap: operator new / delete and raw memory access *)

HeapBase == 8 * 512
SlotStride == 8 * 128

\* address of a stack variable of _alloc (decoy slots of the later variant)
StackBase == 8 * 16

FreeBlock == [kind |-> "free"]

AddrOf(s) == HeapBase + s * SlotStride
SlotOf(a) == (a - HeapBase) \div SlotStride
InArena(a) == a >= HeapBase + SlotStride /\ a < HeapBase + (ArenaSlots + 1) * SlotStride

\* is a the first address of an arena slot
IsBlockStart(a) == InArena(a) /\ (a - HeapBase) % SlotStride = 0

\* the block whose first byte is at address a, a free block if there is none
BlockAt(h, a) == IF IsBlockStart(a) THEN h[SlotOf(a)] ELSE FreeBlock

\* an undefined operation: the first one is recorded
Fault(m, what) == IF m.fault = "none" THEN [m EXCEPT !.fault = what] ELSE m

\* F applied to the machine m, unless something undefined has already happened
Then(m, F(_)) == IF m.fault # "none" THEN m ELSE F(m)

RECURSIVE FirstFree(_, _)
\* the lowest free slot from s upwards, 0 if there is none
FirstFree(h, s) ==
    IF s > ArenaSlots THEN 0
    ELSE IF h[s].kind = "free" THEN s ELSE FirstFree(h, s + 1)

RECURSIVE LastFree(_, _)
\* the highest free slot from s downwards, 0 if there is none
LastFree(h, s) ==
    IF s < 1 THEN 0
    ELSE IF h[s].kind = "free" THEN s ELSE LastFree(h, s - 1)

\* the allocator's choice among the free slots
PickSlot(m) ==
    IF m.pol = "lo" \/ (m.pol = "alt" /\ m.na % 2 = 0)
    THEN FirstFree(m.heap, 1)
    ELSE LastFree(m.heap, ArenaSlots)

\* operator new: blk is placed in a free slot, its address left in r
New(m, blk) ==
    With(PickSlot(m), LAMBDA s :
        IF s = 0 THEN [Fault(m, "bad_alloc") EXCEPT !.r = 0]
        ELSE [m EXCEPT !.heap[s] = blk, !.na = @ + 1, !.r = AddrOf(s)])

\* operator delete / delete[]: a no-op on nullptr, undefined on anything that is
\* not the start of a live block
Delete(m, a) ==
    IF a = 0 THEN m
    ELSE IF BlockAt(m.heap, a).kind = "free" THEN Fault(m, "bad_free")
    ELSE [m EXCEPT !.heap[SlotOf(a)] = FreeBlock]

\* is a the address of a live chain cell (a new intptr_t)
IsCell(h, a) == BlockAt(h, a).kind = "cell"

\* are the n bytes from address a inside one live byte buffer
Readable(h, a, n) ==
    \/ n = 0
    \/ /\ InArena(a)
       /\ h[SlotOf(a)].kind = "bytes"
       /\ (a - AddrOf(SlotOf(a))) + n <= Len(h[SlotOf(a)].data)

\* the n readable bytes from address a
ReadBytes(h, a, n) ==
    IF n = 0 THEN <<>>
    ELSE SubSeq(h[SlotOf(a)].data, (a - AddrOf(SlotOf(a))) + 1, (a - AddrOf(SlotOf(a))) + n)

\* new uint8_t[n] followed by memset(0)
NewBytes(m, n) == New(m, [kind |-> "bytes", data |-> Tuple([i \in 1..n |-> 0])])

\* write the bytes bs at address a; undefined outside a live byte buffer
PokeBytes(m, a, bs) ==
    IF bs = <<>> THEN m
    ELSE IF ~Readable(m.heap, a, Len(bs)) THEN Fault(m, "oob_write")
    ELSE [m EXCEPT !.heap[SlotOf(a)].data =
              SubSeq(@, 1, a - AddrOf(SlotOf(a))) \o bs
              \o SubSeq(@, (a - AddrOf(SlotOf(a))) + Len(bs) + 1, Len(@))]

\* a ^ b on the values 0..15
XorNibble == Tuple([a \in 1..16 |-> Tuple([b \in 1..16 |-> BitXor(a - 1, b - 1)])])

\* a ^ b on uint8_t
Xor8(a, b) ==
    16 * XorNibble[(a \div 16) + 1][(b \div 16) + 1]
    + XorNibble[(a % 16) + 1][(b % 16) + 1]

\* x[i] ^= k[i] for every byte of x
XorBytes(x, k) == Tuple([i \in 1..Len(x) |-> Xor8(x[i], k[i])])

-----------------------------------------------------------------------------
(* CvarMasked *)

\* a value-initialised CvarMasked
MaskedZero == [val |-> 0, msk |-> 0]

\* rand() % std::numeric_limits<T>::max(): for uint8_t the modulus is 255, for
\* uint32_t and intptr_t it exceeds RAND_MAX and the draw is kept as it is
MaskDraw(r, width) == IF width = 8 THEN r % U8Max ELSE r

\* CvarMasked::set: m_msk = rand() % max; m_val = _val ^ m_msk
CvarMasked_set(v, r, width) ==
    [val |-> BitXor(v, MaskDraw(r, width)), msk |-> MaskDraw(r, width)]

\* CvarMasked::get
CvarMasked_get(mv) == BitXor(mv.val, mv.msk)

-----------------------------------------------------------------------------
(* The specifications (size, offset, hop number, pointer) and where they live *)

\* enum Especs_ of the first variant
Especs_v1 == [KeySize |-> 0, KeyOffset |-> 1, ValSize |-> 2, ValOffset |-> 3,
              KeyHopNbr |-> 4, ValHopNbr |-> 5, KeyPtr |-> 6, ValPtr |-> 7]

\* enum Especs_ of the later variant
Especs_ == [Fake1 |-> 0, Val |-> 1, Fake2 |-> 2, Key |-> 3]

\* the struct (later variant) and the member a specification is stored in
SpecsOwner == [KeySize |-> "Key", KeyOffset |-> "Key", KeyHopNbr |-> "Key",
               KeyPtr |-> "Key", KeyReadOffset |-> "Key",
               ValSize |-> "Val", ValOffset |-> "Val", ValHopNbr |-> "Val",
               ValPtr |-> "Val"]
SpecsMember == [KeySize |-> "m_mvSize", KeyOffset |-> "m_mvOffset",
                KeyHopNbr |-> "m_mvHopNbr", KeyPtr |-> "m_mvPtr",
                KeyReadOffset |-> "m_mvReadOfsset",
                ValSize |-> "m_mvSize", ValOffset |-> "m_mvOffset",
                ValHopNbr |-> "m_mvHopNbr", ValPtr |-> "m_mvPtr"]

\* bit width of the CvarMasked holding a specification
SpecsWidth == [KeySize |-> 32, KeyOffset |-> 32, KeyHopNbr |-> 8, KeyPtr |-> 64,
               KeyReadOffset |-> 8, ValSize |-> 32, ValOffset |-> 32,
               ValHopNbr |-> 8, ValPtr |-> 64]

\* struct SspecsVal, value-initialised
SspecsVal == [kind |-> "SspecsVal",
              f |-> [m_mvSize |-> MaskedZero, m_mvOffset |-> MaskedZero,
                     m_mvHopNbr |-> MaskedZero, m_mvPtr |-> MaskedZero]]

\* struct SspecsKey, value-initialised
SspecsKey == [kind |-> "SspecsKey",
              f |-> [m_mvSize |-> MaskedZero, m_mvOffset |-> MaskedZero,
                     m_mvHopNbr |-> MaskedZero, m_mvPtr |-> MaskedZero,
                     m_mvReadOfsset |-> MaskedZero]]

\* the contents of the array of kind `kind` at address a, <<>> if there is none
ArrayData(h, a, kind) ==
    With(BlockAt(h, a), LAMBDA b : IF b.kind = kind THEN b.data ELSE <<>>)

RECURSIVE IndexOf(_, _, _)
\* the first index i (from 0) at or after i0 with d[i] = x, -1 if there is none
IndexOf(d, x, i0) ==
    IF i0 >= Len(d) THEN -1
    ELSE IF d[i0 + 1] = x THEN i0 ELSE IndexOf(d, x, i0 + 1)

\* _getSpecsVarID / _getMaskedVarID: the first index i with m_arrConvert[i] =
\* eType; -1 when there is none in the array
_getSpecsVarID(m, eType) == IndexOf(ArrayData(m.heap, m.arrConvert, "arrConvert"), eType, 0)

\* _retrieveSpecs / _getUint32MaskedVar, ...: m_arrVarAddr[index of eType], 0 if
\* the lookup failed
_retrieveSpecs(m, eType) ==
    With(_getSpecsVarID(m, eType), LAMBDA i :
    With(ArrayData(m.heap, m.arrVarAddr, "arrVarAddr"), LAMBDA a :
        IF i >= 0 /\ i < Len(a) THEN a[i + 1] ELSE 0))

\* the address of the heap block holding specification `which`
SpecsBlockAddr(m, which) ==
    _retrieveSpecs(m, IF m.variant = 1 THEN Especs_v1[which]
                      ELSE Especs_[SpecsOwner[which]])

\* the kind of heap block that holds specification `which`
SpecsKind(m, which) ==
    IF m.variant = 1 THEN "CvarMasked" ELSE "Sspecs" \o SpecsOwner[which]

\* the CvarMasked of specification `which` inside block b
MaskedIn(m, b, which) == IF m.variant = 1 THEN b.mv ELSE b.f[SpecsMember[which]]

\* can specification `which` be reached through the two arrays
SpecsReachable(m, which) ==
    BlockAt(m.heap, SpecsBlockAddr(m, which)).kind = SpecsKind(m, which)

\* ...->get() on specification `which`; 0 if it cannot be reached
SpecsGet(m, which) ==
    With(BlockAt(m.heap, SpecsBlockAddr(m, which)), LAMBDA b :
        IF b.kind = SpecsKind(m, which)
        THEN CvarMasked_get(MaskedIn(m, b, which)) ELSE 0)

\* ...->set(v) on specification `which`; draws one mask
SpecsSet(m, which, v) ==
    With(SpecsBlockAddr(m, which), LAMBDA a :
        IF BlockAt(m.heap, a).kind # SpecsKind(m, which)
        THEN Fault(Drawn(m, 1), "wild_write")
        ELSE IF m.variant = 1
        THEN [m EXCEPT !.rc = @ + 1,
                       !.heap[SlotOf(a)].mv =
                           CvarMasked_set(v, Rand(m, 0), SpecsWidth[which])]
        ELSE [m EXCEPT !.rc = @ + 1,
                       !.heap[SlotOf(a)].f[SpecsMember[which]] =
                           CvarMasked_set(v, Rand(m, 0), SpecsWidth[which])])

-----------------------------------------------------------------------------
(* The chain of hops *)

\* *p = d on the chain cell at address p
CellSet(m, p, d) ==
    IF IsCell(m.heap, p) THEN [m EXCEPT !.heap[SlotOf(p)].d = d]
    ELSE Fault(m, "wild_write")

\* the intptr_t stored in the chain cell at address a
CellAt(h, a) == With(BlockAt(h, a), LAMBDA b : IF b.kind = "cell" THEN b.d ELSE 0)

RECURSIVE _ptrFold_loop(_, _, _)
\* the for loop of _ptrFold, n iterations left, addHopLast the last cell made;
\* the address of the last cell is left in r
_ptrFold_loop(m, n, addHopLast) ==
    IF n <= 0 THEN [m EXCEPT !.r = addHopLast]
    ELSE Then(New(m, [kind |-> "cell", d |-> 0]), LAMBDA m1 :
         Then(CellSet(m1, addHopLast, addHopLast - m1.r), LAMBDA m2 :
              _ptrFold_loop(m2, n - 1, m1.r)))

\* _ptrFold: build _ui8HopNbr cells in front of the buffer at _ui8ptrBuff and
\* store the address of the first in specification mvVal
_ptrFold(m, _ui8HopNbr, mvVal, _ui8ptrBuff) ==
    Then(New(m, [kind |-> "cell", d |-> 0]), LAMBDA m1 :
    Then(SpecsSet(m1, mvVal, m1.r), LAMBDA m2 :
    Then(_ptrFold_loop(m2, _ui8HopNbr - 1, m1.r), LAMBDA m3 :
         CellSet(m3, m3.r, m3.r - _ui8ptrBuff))))

\* variant: a walker that subtracts the quotient in bytes
_ptrUnfold_Walker_bytes(h, p) == p - TruncDiv(CellAt(h, p), 8)

\* variant: a walker whose division rounds down
_ptrUnfold_Walker_floor(h, p) == p - (CellAt(h, p) \div 8) * PtrSize

\* _ptrUnfold_Walker: iDiff = *p / 8; p -= iDiff on an intptr_t pointer
_ptrUnfold_Walker(h, p) == p - TruncDiv(CellAt(h, p), 8) * PtrSize

RECURSIVE _ptrUnfold_loop(_, _, _)
_ptrUnfold_loop(m, n, p) ==
    IF n <= 0 THEN [m EXCEPT !.r = p]
    ELSE IF ~IsCell(m.heap, p) THEN [Fault(m, "wild_read") EXCEPT !.r = 0]
    ELSE _ptrUnfold_loop(m, n - 1, _ptrUnfold_Walker(m.heap, p))

\* _ptrUnfold: the address reached after hop-number jumps from the stored
\* pointer, left in r
_ptrUnfold(m, mvPtr, mvHopNbr) ==
    IF ~SpecsReachable(m, mvPtr) THEN [Fault(m, "wild_read") EXCEPT !.r = 0]
    ELSE _ptrUnfold_loop(m, SpecsGet(m, mvHopNbr), SpecsGet(m, mvPtr))

RECURSIVE _ptrFlush_loop(_, _, _)
\* the for loop of _ptrFlush: walk on from the cell, then delete it
_ptrFlush_loop(m, n, uiPtrCurr) ==
    IF n <= 0 THEN [m EXCEPT !.r = uiPtrCurr]
    ELSE IF ~IsCell(m.heap, uiPtrCurr) THEN [Fault(m, "wild_read") EXCEPT !.r = 0]
    ELSE _ptrFlush_loop(Delete(m, uiPtrCurr), n - 1,
                        _ptrUnfold_Walker(m.heap, uiPtrCurr))

\* variant: an iteration that deletes the cell before it walks on from it
_ptrFlush_body_deleteFirst(m, uiPtrCurr) ==
    IF ~IsCell(m.heap, uiPtrCurr) THEN [Fault(m, "wild_read") EXCEPT !.r = 0]
    ELSE With(Delete(m, uiPtrCurr), LAMBDA m1 :
             IF ~IsCell(m1.heap, uiPtrCurr)
             THEN [Fault(m1, "wild_read") EXCEPT
                      !.r = _ptrUnfold_Walker(m1.heap, uiPtrCurr)]
             ELSE [m1 EXCEPT !.r = _ptrUnfold_Walker(m1.heap, uiPtrCurr)])

\* one iteration of the for loop of _ptrFlush:
\*   uiptrDel = uiPtrCurr; _ptrUnfold_Walker(&uiPtrCurr); delete uiptrDel
\* the new uiPtrCurr is left in r
_ptrFlush_body(m, uiPtrCurr) ==
    IF ~IsCell(m.heap, uiPtrCurr) THEN [Fault(m, "wild_read") EXCEPT !.r = 0]
    ELSE [Delete(m, uiPtrCurr) EXCEPT !.r = _ptrUnfold_Walker(m.heap, uiPtrCurr)]

\* _ptrFlush: delete every cell of the chain, then delete[] what the chain ends at
_ptrFlush(m, mvPtr, mvHopNbr) ==
    IF ~SpecsReachable(m, mvPtr) THEN Fault(m, "wild_read")
    ELSE Then(_ptrFlush_loop(m, SpecsGet(m, mvHopNbr), SpecsGet(m, mvPtr)),
              LAMBDA m1 : Delete(m1, m1.r))

-----------------------------------------------------------------------------
(* Value types and their byte form: _sizeVal, _castVal, _return *)

\* the instantiations of CvarObfuscated<T> that are modelled:
\*   int32_t, std::string, std::vector<int32_t>, std::map<uint8_t, int32_t>,
\*   struct { int32_t i; char str[3]; } (one byte of padding, sizeof 8)
Types == {"int32_t", "string", "vector", "map", "struct"}

INT32_MAX == 2147483647
INT32_MIN == -2147483647 - 1

\* std::string values are sequences of character codes
Str5VRqw3slHk == <<53, 86, 82, 113, 119, 51, 115, 108, 72, 107>>
StrBangQuest == <<33, 63>>
StrLong == Tuple([i \in 1..LongLen |-> 97 + (i % 7)])
StrU8Max == Tuple([i \in 1..U8Max |-> 65 + (i % 5)])

IntVals == {-1, 0, 496, INT32_MIN, INT32_MAX}
StrVals == {<<>>, Str5VRqw3slHk, StrBangQuest, Str5VRqw3slHk \o StrBangQuest,
            StrU8Max, StrLong}
VecVals == {<<>>, <<INT32_MAX, 0, INT32_MIN>>, <<0, 257>>}
MapVals == {<<>>, (0 :> INT32_MIN) @@ (1 :> INT32_MAX) @@ (2 :> 4352),
            (2 :> 4352) @@ (7 :> -1)}
StructVals == {[i |-> INT32_MIN, str |-> <<75, 80, 0>>, pad |-> 0],
               [i |-> 496, str |-> <<120, 73, 78>>, pad |-> 204]}

\* the values a caller assigns to a CvarObfuscated<t>
ValuesOf(t) ==
    CASE t = "int32_t" -> IntVals
      [] t = "string"  -> StrVals
      [] t = "vector"  -> VecVals
      [] t = "map"     -> MapVals
      [] t = "struct"  -> StructVals

\* T(): the value-initialised T
DefaultOf(t) ==
    CASE t = "int32_t" -> 0
      [] t = "string"  -> <<>>
      [] t = "vector"  -> <<>>
      [] t = "map"     -> <<>>
      [] t = "struct"  -> [i |-> 0, str |-> <<0, 0, 0>>, pad |-> 0]

\* _sizeVal
_sizeVal(t, v) ==
    CASE t = "int32_t" -> 4
      [] t = "string"  -> Len(v)
      [] t = "vector"  -> Len(v) * 4
      [] t = "map"     -> Cardinality(DOMAIN v) * (1 + 4)
      [] t = "struct"  -> 8

RECURSIVE _castVal_vector(_)
_castVal_vector(v) ==
    IF v = <<>> THEN <<>> ELSE I32Bytes(Head(v)) \o _castVal_vector(Tail(v))

RECURSIVE _castVal_map(_, _)
\* the pairs of v with a key in ks, in increasing key order
_castVal_map(v, ks) ==
    IF ks = {} THEN <<>>
    ELSE <<Min(ks)>> \o I32Bytes(v[Min(ks)]) \o _castVal_map(v, ks \ {Min(ks)})

\* _castVal: the _iSize bytes written for v
_castVal(t, v) ==
    CASE t = "int32_t" -> I32Bytes(v)
      [] t = "string"  -> v
      [] t = "vector"  -> _castVal_vector(v)
      [] t = "map"     -> _castVal_map(v, DOMAIN v)
      [] t = "struct"  -> I32Bytes(v.i) \o v.str \o <<v.pad>>

RECURSIVE _return_vector_le(_, _, _)
\* variant: a loop that runs while iIndex <= _iValSize
_return_vector_le(b, iIndex, _iValSize) ==
    IF ~(iIndex <= _iValSize) THEN <<>>
    ELSE <<I32FromBytes([j \in 1..4 |-> IF iIndex + j <= Len(b) THEN b[iIndex + j] ELSE 0])>>
         \o _return_vector_le(b, iIndex + 4, _iValSize)

RECURSIVE _return_vector(_, _, _)
\* while (iIndex < _iValSize) { memcpy 4 bytes; iIndex += 4; push_back }
_return_vector(b, iIndex, _iValSize) ==
    IF ~(iIndex < _iValSize) THEN <<>>
    ELSE <<I32FromBytes([j \in 1..4 |-> IF iIndex + j <= Len(b) THEN b[iIndex + j] ELSE 0])>>
         \o _return_vector(b, iIndex + 4, _iValSize)

RECURSIVE _return_map(_, _, _, _)
\* while (iIndex < _iValSize) { memcpy key; memcpy value; insert }; insert keeps
\* the pair already present for a key
_return_map(b, iIndex, _iValSize, acc) ==
    IF ~(iIndex < _iValSize) THEN acc
    ELSE LET key == IF iIndex + 1 <= Len(b) THEN b[iIndex + 1] ELSE 0
             var == I32FromBytes([j \in 1..4 |->
                        IF iIndex + 1 + j <= Len(b) THEN b[iIndex + 1 + j] ELSE 0])
         IN _return_map(b, iIndex + 1 + 4, _iValSize,
                        IF key \in DOMAIN acc THEN acc ELSE acc @@ (key :> var))

\* _return: the T rebuilt from the _iValSize bytes b
_return(t, b, _iValSize) ==
    CASE t = "int32_t" -> I32FromBytes(b)
      [] t = "string"  -> b
      [] t = "vector"  -> _return_vector(b, 0, _iValSize)
      [] t = "map"     -> _return_map(b, 0, _iValSize, <<>>)
      [] t = "struct"  -> [i |-> I32FromBytes(SubSeq(b, 1, 4)),
                           str |-> SubSeq(b, 5, 7), pad |-> b[8]]

-----------------------------------------------------------------------------
(* The XOR with the key *)

\* one more than the highest index (i + iKeyReadOffset) % iKeySize for 0 <= i < n
KeyReach(n, iKeyReadOffset, iKeySize) ==
    IF n = 0 THEN 0
    ELSE IF iKeyReadOffset + n > iKeySize THEN iKeySize ELSE iKeyReadOffset + n

\* the key bytes key[(i + iKeyReadOffset) % iKeySize] for 0 <= i < n, where key
\* holds the first KeyReach bytes at the key's position
KeyStream(key, n, iKeyReadOffset, iKeySize) ==
    Tuple([j \in 1..n |-> key[(((j - 1) + iKeyReadOffset) % iKeySize) + 1]])

\* for (i = 0; i < n; ++i) _ptrBuff[i] ^= ptrKey[(i + iKeyReadOffset) % iKeySize]
XorWithKey(m, _ptrBuff, n, ptrKey, iKeyReadOffset, iKeySize) ==
    IF n = 0 THEN m
    ELSE IF iKeySize = 0 THEN Fault(m, "div_zero")
    ELSE IF ~Readable(m.heap, ptrKey, KeyReach(n, iKeyReadOffset, iKeySize))
    THEN Fault(m, "oob_read")
    ELSE IF ~Readable(m.heap, _ptrBuff, n) THEN Fault(m, "oob_write")
    ELSE PokeBytes(m, _ptrBuff,
             XorBytes(ReadBytes(m.heap, _ptrBuff, n),
                      KeyStream(ReadBytes(m.heap, ptrKey,
                                          KeyReach(n, iKeyReadOffset, iKeySize)),
                                n, iKeyReadOffset, iKeySize)))

\* memcpy(dst, src, n) between heap buffers
Memcpy(m, dst, src, n) ==
    IF ~Readable(m.heap, src, n) THEN Fault(m, "oob_read")
    ELSE PokeBytes(m, dst, ReadBytes(m.heap, src, n))

\* the results of a public operation
RetVal(v) == [kind |-> "val", v |-> v]
RetThrow == [kind |-> "throw"]
RetHang == [kind |-> "hang"]
RetFault == [kind |-> "fault"]

-----------------------------------------------------------------------------
(* CvarObfuscated, later variant: the private core *)

RECURSIVE _alloc_loop_noswap(_, _, _)
\* variant: a loop that binds the drawn index itself, not the element of the
\* shuffled array at that index
_alloc_loop_noswap(m, i, ui8IndexDone) ==
    IF i >= 4 THEN m
    ELSE LET iRand == Rand(m, 0) % (4 - i)
             ui8IndexSelect == iRand
         IN Then(CASE i = Especs_.Val -> New(Drawn(m, 1), SspecsVal)
                   [] i = Especs_.Key -> New(Drawn(m, 1), SspecsKey)
                   [] i = Especs_.Fake1 -> [m EXCEPT !.rc = @ + 1, !.r = StackBase]
                   [] i = Especs_.Fake2 -> [m EXCEPT !.rc = @ + 1, !.r = StackBase + 8],
                 LAMBDA m1 :
                 _alloc_loop_noswap(
                     [m1 EXCEPT !.heap[SlotOf(m.arrConvert)].data[ui8IndexSelect + 1] = i,
                                !.heap[SlotOf(m.arrVarAddr)].data[ui8IndexSelect + 1] = m1.r],
                     i + 1, ui8IndexDone))

\* the body of the for loop of _alloc for i, i+1, .., 3; ui8IndexDone is the
\* local array of the shuffle, indexed from 0
RECURSIVE _alloc_loop(_, _, _)
_alloc_loop(m, i, ui8IndexDone) ==
    IF i >= 4 THEN m
    ELSE LET iRand == Rand(m, 0) % (4 - i)
             ui8IndexSelect == ui8IndexDone[iRand + 1]
         IN Then(CASE i = Especs_.Val -> New(Drawn(m, 1), SspecsVal)
                   [] i = Especs_.Key -> New(Drawn(m, 1), SspecsKey)
                   [] i = Especs_.Fake1 -> [m EXCEPT !.rc = @ + 1, !.r = StackBase]
                   [] i = Especs_.Fake2 -> [m EXCEPT !.rc = @ + 1, !.r = StackBase + 8],
                 LAMBDA m1 :
                 _alloc_loop(
                     [m1 EXCEPT !.heap[SlotOf(m.arrConvert)].data[ui8IndexSelect + 1] = i,
                                !.heap[SlotOf(m.arrVarAddr)].data[ui8IndexSelect + 1] = m1.r],
                     i + 1,
                     [ui8IndexDone EXCEPT ![iRand + 1] = ui8IndexDone[(3 - i) + 1],
                                          ![(3 - i) + 1] = ui8IndexSelect]))

\* _alloc
_alloc(m) ==
    IF m.perf /\ ~m.bEmpty THEN m
    ELSE Then(New(m, [kind |-> "arrVarAddr", data |-> <<0, 0, 0, 0>>]), LAMBDA m1 :
         Then(New([m1 EXCEPT !.arrVarAddr = m1.r],
                  [kind |-> "arrConvert", data |-> <<255, 255, 255, 255>>]), LAMBDA m2 :
              _alloc_loop([m2 EXCEPT !.arrConvert = m2.r], 0, <<0, 1, 2, 3>>)))

\* variant: a _genKey that allocates no spare bytes after the key
_genKey_noSpare(m) ==
    IF ~(~m.perf \/ m.bEmpty) THEN m
    ELSE LET iKeyOffset == (Rand(m, 0) % 24) + 8
             iKeySize == (Rand(m, 1) % 32) + 32
             iAllocSize == iKeySize + iKeyOffset + (Rand(m, 2) % 24)
             iReadOffset == Rand(m, 3) % iKeySize
             ui8KeyHopNbr == (Rand(m, 4) % 7) + 1
         IN Then(SpecsSet(Drawn(m, 5), "KeyOffset", iKeyOffset), LAMBDA m1 :
            Then(SpecsSet(m1, "KeySize", iKeySize), LAMBDA m2 :
            Then(SpecsSet(m2, "KeyHopNbr", ui8KeyHopNbr), LAMBDA m3 :
            Then(SpecsSet(m3, "KeyReadOffset", iReadOffset), LAMBDA m4 :
            Then(NewBytes(m4, iAllocSize), LAMBDA m5 :
            Then(Drawn(PokeBytes(m5, m5.r, RandBytes(m5, iAllocSize)), iAllocSize),
                 LAMBDA m6 :
                 _ptrFold(m6, ui8KeyHopNbr, "KeyPtr", m5.r)))))))

\* variant: a _genKey that generates a key at every write
_genKey_always(m) ==
    LET iKeyOffset == (Rand(m, 0) % 24) + 8
        iKeySize == (Rand(m, 1) % 32) + 32
        iAllocSize == iKeySize + iKeyOffset + 8 + (Rand(m, 2) % 24)
        iReadOffset == Rand(m, 3) % iKeySize
        ui8KeyHopNbr == (Rand(m, 4) % 7) + 1
    IN Then(SpecsSet(Drawn(m, 5), "KeyOffset", iKeyOffset), LAMBDA m1 :
       Then(SpecsSet(m1, "KeySize", iKeySize), LAMBDA m2 :
       Then(SpecsSet(m2, "KeyHopNbr", ui8KeyHopNbr), LAMBDA m3 :
       Then(SpecsSet(m3, "KeyReadOffset", iReadOffset), LAMBDA m4 :
       Then(NewBytes(m4, iAllocSize), LAMBDA m5 :
       Then(Drawn(PokeBytes(m5, m5.r, RandBytes(m5, iAllocSize)), iAllocSize),
            LAMBDA m6 :
            _ptrFold(m6, ui8KeyHopNbr, "KeyPtr", m5.r)))))))

\* _genKey
_genKey(m) ==
    IF ~(~m.perf \/ m.bEmpty) THEN m
    ELSE LET iKeyOffset == (Rand(m, 0) % 24) + 8
             iKeySize == (Rand(m, 1) % 32) + 32
             iAllocSize == iKeySize + iKeyOffset + 8 + (Rand(m, 2) % 24)
             iReadOffset == Rand(m, 3) % iKeySize
             ui8KeyHopNbr == (Rand(m, 4) % 7) + 1
         IN Then(SpecsSet(Drawn(m, 5), "KeyOffset", iKeyOffset), LAMBDA m1 :
            Then(SpecsSet(m1, "KeySize", iKeySize), LAMBDA m2 :
            Then(SpecsSet(m2, "KeyHopNbr", ui8KeyHopNbr), LAMBDA m3 :
            Then(SpecsSet(m3, "KeyReadOffset", iReadOffset), LAMBDA m4 :
            Then(NewBytes(m4, iAllocSize), LAMBDA m5 :
            Then(Drawn(PokeBytes(m5, m5.r, RandBytes(m5, iAllocSize)), iAllocSize),
                 LAMBDA m6 :
                 _ptrFold(m6, ui8KeyHopNbr, "KeyPtr", m5.r)))))))

\* variant: an _obfuscateVal that starts at the first byte of the key
_obfuscateVal_noReadOffset(m, _ptrBuff, _iValSize) ==
    Then(_ptrUnfold(m, "KeyPtr", "KeyHopNbr"), LAMBDA m1 :
        XorWithKey(m1, _ptrBuff, _iValSize, m1.r + SpecsGet(m, "KeyOffset"),
                   0, SpecsGet(m, "KeySize")))

\* _obfuscateVal: XOR the _iValSize bytes at address _ptrBuff with the key
_obfuscateVal(m, _ptrBuff, _iValSize) ==
    Then(_ptrUnfold(m, "KeyPtr", "KeyHopNbr"), LAMBDA m1 :
        XorWithKey(m1, _ptrBuff, _iValSize, m1.r + SpecsGet(m, "KeyOffset"),
                   SpecsGet(m, "KeyReadOffset"), SpecsGet(m, "KeySize")))

\* _copyVal_noisePadding: _ui8Ptr[i] = rand() % 256 for _iBeg <= i < _iEng
_copyVal_noisePadding(m, _iBeg, _iEng, _ui8Ptr) ==
    IF ~(_iBeg < _iEng) THEN m
    ELSE Drawn(PokeBytes(m, _ui8Ptr + _iBeg, RandBytes(m, _iEng - _iBeg)),
               _iEng - _iBeg)

\* _copyVal
_copyVal(m, t, _val) ==
    LET iSize == _sizeVal(t, _val)
        iValOffset == (Rand(m, 0) % 24) + 8
        iValSize == iSize + iValOffset + 8 + (Rand(m, 1) % 24)
        ui8ValHopNbr == (Rand(m, 2) % 7) + 1
    IN Then(SpecsSet(Drawn(m, 3), "ValOffset", iValOffset), LAMBDA m1 :
       Then(SpecsSet(m1, "ValSize", iSize), LAMBDA m2 :
       Then(SpecsSet(m2, "ValHopNbr", ui8ValHopNbr), LAMBDA m3 :
       Then(NewBytes(m3, iValSize), LAMBDA m4 :
       Then(_copyVal_noisePadding(m4, 0, iValOffset, m4.r), LAMBDA m5 :
       Then(_copyVal_noisePadding(m5, iValOffset + iValSize, iSize, m4.r), LAMBDA m6 :
       Then(PokeBytes(m6, m4.r + iValOffset, _castVal(t, _val)), LAMBDA m7 :
       Then(_obfuscateVal(m7, m4.r + iValOffset, iSize), LAMBDA m8 :
            _ptrFold(m8, ui8ValHopNbr, "ValPtr", m4.r)))))))))

RECURSIVE _flush_loop(_, _, _, _)
\* the for loop of _flush over the four slots, from slot i on; conv and addr are
\* the two arrays
_flush_loop(m, i, conv, addr) ==
    IF i >= 4 \/ m.fault # "none" THEN m
    ELSE IF i >= Len(conv) \/ i >= Len(addr) THEN Fault(m, "wild_read")
    ELSE IF conv[i + 1] = Especs_.Val \/ conv[i + 1] = Especs_.Key
    THEN _flush_loop(Delete(m, addr[i + 1]), i + 1, conv, addr)
    ELSE _flush_loop([m EXCEPT !.heap[SlotOf(m.arrVarAddr)].data[i + 1] = 0],
                     i + 1, conv, addr)

\* variant: a _flush that leaves the key chain and the key buffer allocated
_flush_keepKey(m, _bForce) ==
    IF ~(~m.bEmpty \/ (_bForce /\ ~m.bEmpty)) THEN m
    ELSE Then(_ptrFlush(m, "ValPtr", "ValHopNbr"), LAMBDA m1 :
         IF ~(~m.perf \/ _bForce) THEN m1
         ELSE Then(_flush_loop(m1, 0, ArrayData(m1.heap, m1.arrConvert, "arrConvert"),
                               ArrayData(m1.heap, m1.arrVarAddr, "arrVarAddr")),
                   LAMBDA m3 :
              Then(Delete(m3, m3.arrVarAddr), LAMBDA m4 :
                   Delete(m4, m4.arrConvert))))

\* _flush
_flush(m, _bForce) ==
    IF ~(~m.bEmpty \/ (_bForce /\ ~m.bEmpty)) THEN m
    ELSE Then(_ptrFlush(m, "ValPtr", "ValHopNbr"), LAMBDA m1 :
         IF ~(~m.perf \/ _bForce) THEN m1
         ELSE Then(_ptrFlush(m1, "KeyPtr", "KeyHopNbr"), LAMBDA m2 :
              Then(_flush_loop(m2, 0, ArrayData(m2.heap, m2.arrConvert, "arrConvert"),
                               ArrayData(m2.heap, m2.arrVarAddr, "arrVarAddr")),
                   LAMBDA m3 :
              Then(Delete(m3, m3.arrVarAddr), LAMBDA m4 :
                   Delete(m4, m4.arrConvert)))))

\* _set after its call of _flush: _alloc, _genKey, the flag, _copyVal
_set_install(m, t, _val) ==
    Then(_alloc(m), LAMBDA m2 :
    Then(_genKey(m2), LAMBDA m3 :
         _copyVal([m3 EXCEPT !.bEmpty = FALSE], t, _val)))

\* _set
_set(m, t, _val) == Then(_flush(m, FALSE), LAMBDA m1 : _set_install(m1, t, _val))

\* the for loop of _get:
\*   for (uint8_t i(0); i < iValSize; ++i)
\*       ui8ValBuff[i] ^= ptrKeyBuff[(iKeyReadOffset + i) % iKeySize];
\* i is a uint8_t: it takes the values 0, 1, .., 255 and then 0 again, so the
\* test i < iValSize fails only when iValSize < 256; otherwise the body runs
\* for i = 0..255 and the loop is back where it started.  r tells whether the
\* loop has ended.
_get_xor(m, ui8ValBuff, iValSize, ptrKeyBuff, iKeyReadOffset, iKeySize) ==
    Then(XorWithKey(m, ui8ValBuff, IF iValSize < U8Mod THEN iValSize ELSE U8Mod,
                    ptrKeyBuff, iKeyReadOffset, iKeySize),
         LAMBDA m1 : [m1 EXCEPT !.r = iValSize < U8Mod])

\* the end of _get: _return, delete[] ui8ValBuff, return val
_get_return(m, t, ui8ValBuff, iValSize) ==
    [Delete(m, ui8ValBuff) EXCEPT
        !.r = RetVal(_return(t, ReadBytes(m.heap, ui8ValBuff, iValSize), iValSize))]

\* _get from "Retrieve stored value and key specifications" up to the memcpy
\* into the new buffer: the locals of the function are left in r
_get_locals(m0, iKeyReadOffset) ==
    With(SpecsGet(m0, "ValSize"), LAMBDA iValSize :
    Then(_ptrUnfold(m0, "ValPtr", "ValHopNbr"), LAMBDA m1 :
    Then(_ptrUnfold(m1, "KeyPtr", "KeyHopNbr"), LAMBDA m2 :
    Then(NewBytes(m2, iValSize), LAMBDA m3 :
    Then(Memcpy(m3, m3.r, m1.r + SpecsGet(m0, "ValOffset"), iValSize), LAMBDA m4 :
         [m4 EXCEPT !.r = [ui8ValBuff |-> m3.r, iValSize |-> iValSize, i |-> 0,
                           ptrKeyBuff |-> m2.r + SpecsGet(m0, "KeyOffset"),
                           iKeySize |-> SpecsGet(m0, "KeySize"),
                           iKeyReadOffset |-> iKeyReadOffset]])))))

\* _get from its for loop on, with the locals l; the result is left in r
_get_finish(m, t, l) ==
    Then(_get_xor(m, l.ui8ValBuff, l.iValSize, l.ptrKeyBuff, l.iKeyReadOffset,
                  l.iKeySize),
         LAMBDA m5 :
         IF ~m5.r THEN [m5 EXCEPT !.r = RetHang]
         ELSE _get_return(m5, t, l.ui8ValBuff, l.iValSize))

\* _get after the test of m_bEmpty
_get_read(m0, t) ==
    Then(_get_locals(m0, SpecsGet(m0, "KeyReadOffset")), LAMBDA m4 :
         _get_finish(m4, t, m4.r))

\* variant: a later-variant _get without the initialisation of an empty container
_get_noinit(m, t) == _get_read(m, t)

\* _get: an empty container is first set to T()
_get(m, t) ==
    IF m.bEmpty THEN Then(_set(m, t, DefaultOf(t)), LAMBDA m0 : _get_read(m0, t))
    ELSE _get_read(m, t)

-----------------------------------------------------------------------------
(* CvarObfuscated, first variant: the private core *)

\* the switch of _alloc: the width of the CvarMasked<..> allocated for the
\* specification type ui8Select
MaskedWidth_v1(ui8Select) ==
    IF ui8Select <= Especs_v1.ValOffset THEN 32
    ELSE IF ui8Select <= Especs_v1.ValHopNbr THEN 8 ELSE 64

RECURSIVE _alloc_v1_loop(_, _, _)
\* the body of the for loop of _alloc for i, i+1, .., 7; vecSpecs is the vector
\* of the specification types not yet placed
_alloc_v1_loop(m, i, vecSpecs) ==
    IF i >= 8 THEN m
    ELSE LET iSelect == Rand(m, 0) % Len(vecSpecs)
         IN Then(New(Drawn(m, 1), [kind |-> "CvarMasked", mv |-> MaskedZero,
                                   width |-> MaskedWidth_v1(vecSpecs[iSelect + 1])]),
                 LAMBDA m1 :
                 _alloc_v1_loop(
                     [m1 EXCEPT !.heap[SlotOf(m.arrConvert)].data[i + 1] =
                                    vecSpecs[iSelect + 1],
                                !.heap[SlotOf(m.arrVarAddr)].data[i + 1] = m1.r],
                     i + 1,
                     SubSeq(vecSpecs, 1, iSelect)
                         \o SubSeq(vecSpecs, iSelect + 2, Len(vecSpecs))))

\* _alloc; the two arrays are written in full by the loop
_alloc_v1(m) ==
    Then(New(m, [kind |-> "arrVarAddr", data |-> <<0, 0, 0, 0, 0, 0, 0, 0>>]),
         LAMBDA m1 :
    Then(New([m1 EXCEPT !.arrVarAddr = m1.r],
             [kind |-> "arrConvert",
              data |-> <<255, 255, 255, 255, 255, 255, 255, 255>>]), LAMBDA m2 :
         _alloc_v1_loop([m2 EXCEPT !.arrConvert = m2.r], 0,
                        <<0, 1, 2, 3, 4, 5, 6, 7>>)))

\* _genKey
_genKey_v1(m) ==
    LET iKeyOffset == (Rand(m, 0) % 24) + 8
        iKeySize == (Rand(m, 1) % 32) + 32
        iAllocSize == iKeySize + iKeyOffset + 8 + (Rand(m, 2) % 24)
        ui8KeyHopNbr == (Rand(m, 3) % 7) + 1
    IN Then(SpecsSet(Drawn(m, 4), "KeyOffset", iKeyOffset), LAMBDA m1 :
       Then(SpecsSet(m1, "KeySize", iKeySize), LAMBDA m2 :
       Then(SpecsSet(m2, "KeyHopNbr", ui8KeyHopNbr), LAMBDA m3 :
       Then(NewBytes(m3, iAllocSize), LAMBDA m4 :
       Then(Drawn(PokeBytes(m4, m4.r, RandBytes(m4, iAllocSize)), iAllocSize),
            LAMBDA m5 :
            _ptrFold(m5, ui8KeyHopNbr, "KeyPtr", m4.r))))))

\* _obfuscateVal: _ptrBuff[i] ^= ui8KeyBuff[iKeyOffset + (i % iKeySize)]
_obfuscateVal_v1(m, _ptrBuff, _iValSize) ==
    Then(_ptrUnfold(m, "KeyPtr", "KeyHopNbr"), LAMBDA m1 :
        XorWithKey(m1, _ptrBuff, _iValSize, m1.r + SpecsGet(m, "KeyOffset"),
                   0, SpecsGet(m, "KeySize")))

\* _copyVal: the ciphered bytes at _ptrBuff are copied into a new padded buffer
_copyVal_v1(m, _ptrBuff, _iValSize) ==
    LET iValOffset == (Rand(m, 0) % 24) + 8
        iValSize == _iValSize + iValOffset + 8 + (Rand(m, 1) % 24)
        ui8ValHopNbr == (Rand(m, 2) % 7) + 1
    IN Then(SpecsSet(Drawn(m, 3), "ValOffset", iValOffset), LAMBDA m1 :
       Then(SpecsSet(m1, "ValSize", _iValSize), LAMBDA m2 :
       Then(SpecsSet(m2, "ValHopNbr", ui8ValHopNbr), LAMBDA m3 :
       Then(NewBytes(m3, iValSize), LAMBDA m4 :
       Then(_copyVal_noisePadding(m4, 0, iValOffset, m4.r), LAMBDA m5 :
       Then(_copyVal_noisePadding(m5, iValOffset + iValSize, _iValSize, m4.r),
            LAMBDA m6 :
       Then(Memcpy(m6, m4.r + iValOffset, _ptrBuff, _iValSize), LAMBDA m7 :
            _ptrFold(m7, ui8ValHopNbr, "ValPtr", m4.r))))))))

RECURSIVE _flush_v1_loop(_, _)
\* the three delete loops of _flush over the specification types i, .., 7
_flush_v1_loop(m, i) ==
    IF i >= 8 \/ m.fault # "none" THEN m
    ELSE IF BlockAt(m.heap, _retrieveSpecs(m, i)).kind # "CvarMasked"
    THEN Fault(m, "wild_read")
    ELSE _flush_v1_loop(Delete(m, _retrieveSpecs(m, i)), i + 1)

\* variant: a _flush that marks the container empty again
_flush_v1_reset(m) ==
    Then(_ptrFlush(m, "ValPtr", "ValHopNbr"), LAMBDA m1 :
    Then(_ptrFlush(m1, "KeyPtr", "KeyHopNbr"), LAMBDA m2 :
    Then(_flush_v1_loop(m2, 0), LAMBDA m3 :
    Then(Delete(m3, m3.arrVarAddr), LAMBDA m4 :
         [Delete(m4, m4.arrConvert) EXCEPT !.bEmpty = TRUE]))))

\* _flush: no test of m_bEmpty
_flush_v1(m) ==
    Then(_ptrFlush(m, "ValPtr", "ValHopNbr"), LAMBDA m1 :
    Then(_ptrFlush(m1, "KeyPtr", "KeyHopNbr"), LAMBDA m2 :
    Then(_flush_v1_loop(m2, 0), LAMBDA m3 :
    Then(Delete(m3, m3.arrVarAddr), LAMBDA m4 :
         Delete(m4, m4.arrConvert)))))

\* _castVal: a new buffer of _iSize bytes holding the bytes of _val, its
\* address left in r
_castVal_v1(m, t, _val, _iSize) ==
    Then(NewBytes(m, _iSize), LAMBDA m1 :
        [PokeBytes(m1, m1.r, _castVal(t, _val)) EXCEPT !.r = m1.r])

\* _set after its first statement: _alloc, _genKey, _castVal, _obfuscateVal,
\* _copyVal, delete[]
_set_v1_install(m, t, _val) ==
    Then(_alloc_v1(m), LAMBDA m2 :
    Then(_genKey_v1(m2), LAMBDA m3 :
    Then(_castVal_v1(m3, t, _val, _sizeVal(t, _val)), LAMBDA m4 :
    Then(_obfuscateVal_v1(m4, m4.r, _sizeVal(t, _val)), LAMBDA m5 :
    Then(_copyVal_v1(m5, m4.r, _sizeVal(t, _val)), LAMBDA m6 :
         Delete(m6, m4.r))))))

\* the first statement of _set: if (!m_bEmpty) _flush(); else m_bEmpty = false
_set_v1_flush(m) == IF ~m.bEmpty THEN _flush_v1(m) ELSE [m EXCEPT !.bEmpty = FALSE]

\* _set
_set_v1(m, t, _val) ==
    Then(_set_v1_flush(m), LAMBDA m1 : _set_v1_install(m1, t, _val))

\* _get after the test of m_bEmpty: the key is read from its first byte
_get_v1_read(m0, t) ==
    Then(_get_locals(m0, 0), LAMBDA m4 : _get_finish(m4, t, m4.r))

\* variant: a first-variant _get without the test of m_bEmpty
_get_v1_notest(m, t) == _get_v1_read(m, t)

\* _get: throws on an empty container
_get_v1(m, t) ==
    IF m.bEmpty THEN [m EXCEPT !.r = RetThrow] ELSE _get_v1_read(m, t)

-----------------------------------------------------------------------------
(* CvarObfuscated: the public operators, as functions of the machine *)

\* the private _get / _set of the variant in use
Get(m, t) == IF m.variant = 1 THEN _get_v1(m, t) ELSE _get(m, t)
Set(m, t, _val) == IF m.variant = 1 THEN _set_v1(m, t, _val) ELSE _set(m, t, _val)

\* F applied to a machine in which _get has returned a value; a machine in
\* which it threw, faulted or did not return is left as it is
Returned(m, F(_)) ==
    IF m.fault # "none" THEN m
    ELSE IF m.r.kind # "val" THEN m
    ELSE F(m)

\* variant: a conversion operator that stores the value again after reading it
operator_T_restore(m, t) ==
    Returned(Get(m, t), LAMBDA g : [Set(g, t, g.r.v) EXCEPT !.r = g.r])

\* operator T(): return _get()
operator_T(m, t) == Get(m, t)

\* operator=: _set(_val); return _val
operator_assign(m, t, _val) == [Set(m, t, _val) EXCEPT !.r = RetVal(_val)]

BinaryOps == {"+", "-", "*", "/", "%", "&", "|", "^", "<<", ">>"}
CompoundOps == {"+=", "-=", "*=", "/=", "&=", "|=", "^="}
IncDecOps == {"++pre", "++post", "--pre", "--post"}
CompareOps == {"==", "!="}

\* the built-in operator a compound or increment operator applies
NativeOf(op) ==
    CASE op = "+=" -> "+" [] op = "-=" -> "-" [] op = "*=" -> "*"
      [] op = "/=" -> "/" [] op = "&=" -> "&" [] op = "|=" -> "|"
      [] op = "^=" -> "^"
      [] op \in {"++pre", "++post"} -> "+"
      [] op \in {"--pre", "--post"} -> "-"
      [] OTHER -> op

\* variant: a binary operator that writes its result back
operator_binary_set(m, t, op, _val) ==
    Returned(Get(m, t), LAMBDA g :
        [Set(g, t, NativeOp(op, g.r.v, _val)) EXCEPT
            !.r = RetVal(NativeOp(op, g.r.v, _val))])

\* operator + - * / % & | ^ << >>: return (_get() op _val)
operator_binary(m, t, op, _val) ==
    Returned(Get(m, t), LAMBDA g : [g EXCEPT !.r = RetVal(NativeOp(op, g.r.v, _val))])

\* variant: a compound operator that does not write back
operator_compound_noset(m, t, op, _val) ==
    Returned(Get(m, t), LAMBDA g :
        [g EXCEPT !.r = RetVal(NativeOp(NativeOf(op), g.r.v, _val))])

\* T val(_get() op _val); _set(val); return val
\* the body shared by += -= *= /= &= |= ^= (int32_t) and by ++ and -- (op 1)
operator_compound(m, t, op, _val) ==
    Returned(Get(m, t), LAMBDA g :
        With(NativeOp(NativeOf(op), g.r.v, _val), LAMBDA val :
            [Set(g, t, val) EXCEPT !.r = RetVal(val)]))

\* variant: postfix operators that return the value held before, as the
\* built-in postfix operators do
operator_incdec_builtin(m, t, op) ==
    IF op \in {"++post", "--post"}
    THEN Returned(Get(m, t), LAMBDA g :
             [Set(g, t, NativeOp(NativeOf(op), g.r.v, 1)) EXCEPT !.r = g.r])
    ELSE operator_compound(m, t, op, 1)

\* operator ++ / -- (prefix and postfix): T val(_get() + 1); _set(val); return val
operator_incdec(m, t, op) == operator_compound(m, t, op, 1)

\* operator += on std::string:
\*   std::string val(_get()); val.append(_val); _set(val); return val
operator_append(m, t, _val) ==
    Returned(Get(m, t), LAMBDA g :
        With(g.r.v \o _val, LAMBDA val : [Set(g, t, val) EXCEPT !.r = RetVal(val)]))

\* variant: a comparison of the first byte only
operator_compare_byte(m, t, op, _vr) ==
    Returned(Get(m, t), LAMBDA g :
        [g EXCEPT !.r = RetVal((I32Bytes(g.r.v)[1] = I32Bytes(_vr)[1]) = (op = "=="))])

\* operator == / != on int32_t: memcmp of the sizeof(T) bytes of _get() and _vr
operator_compare(m, t, op, _vr) ==
    Returned(Get(m, t), LAMBDA g :
        [g EXCEPT !.r = RetVal((I32Bytes(g.r.v) = I32Bytes(_vr)) = (op = "=="))])

\* the layouts of a std::string object: with a pointer to its characters in
\* every object (short strings point into the object itself), or with short
\* strings stored in the object in place of the pointer
StringLayouts == {"pointer", "inline"}

\* the longest text a std::string keeps inside its own object
SsoCapacity == 15

\* what the bytes of a std::string object that hold no character may contain
Slack == {0, 1}

\* the addresses of the local vl of operator == and of the caller's operand
VlAddr == StackBase
VrAddr == StackBase + 4 * PtrSize

\* the sizeof(std::string) bytes of the std::string holding s in the object at
\* address a: the pointer to the characters, the length, and the buffer inside
\* the object with its unused bytes
StringRep(layout, s, a, slack) ==
    IF Len(s) > SsoCapacity
    THEN [p |-> <<"heap buffer of", a>>, n |-> Len(s), buf |-> <<>>, unused |-> slack]
    ELSE IF layout = "pointer"
    THEN [p |-> <<"buffer inside", a>>, n |-> Len(s), buf |-> s, unused |-> slack]
    ELSE [p |-> <<"none", 0>>, n |-> Len(s), buf |-> s, unused |-> slack]

\* variant: a comparison of the characters
operator_compare_memcmp_content(g, op, _vr, layout, slackL, slackR) ==
    Returned(g, LAMBDA g1 : [g1 EXCEPT !.r = RetVal((g1.r.v = _vr) = (op = "=="))])

\* operator == / != on std::string, in the machine g in which T vl(_get()) has
\* been evaluated: memcmp of the sizeof(T) bytes of the objects vl and _vr
operator_compare_memcmp(g, op, _vr, layout, slackL, slackR) ==
    Returned(g, LAMBDA g1 :
        [g1 EXCEPT !.r = RetVal((StringRep(layout, g1.r.v, VlAddr, slackL)
                                 = StringRep(layout, _vr, VrAddr, slackR))
                                = (op = "=="))])

RECURSIVE MapOf(_, _)
\* std::map<uint8_t, int32_t> { pairs }: the pairs are inserted in the order they
\* are listed, a pair whose key is already present is not inserted
MapOf(acc, pairs) ==
    IF pairs = <<>> THEN acc
    ELSE MapOf(IF Head(pairs)[1] \in DOMAIN acc THEN acc
               ELSE acc @@ (Head(pairs)[1] :> Head(pairs)[2]),
               Tail(pairs))

\* the right operand of == and != as the caller builds it
OperandOf(t, _vr) == IF t = "map" THEN MapOf(<<>>, _vr) ELSE _vr

\* std::vector / std::map operator==: same size and equal elements in iteration
\* order (a map iterates in increasing key order)
ContainerEqual(t, a, b) ==
    IF t = "map"
    THEN _castVal_map(a, DOMAIN a) = _castVal_map(b, DOMAIN b)
    ELSE Len(a) = Len(b) /\ \A i \in 1..Len(a) : a[i] = b[i]

\* operator == / != on std::vector and std::map: return (_get() == _vr),
\* return (_get() != _vr)
operator_equal(m, t, op, _vr) ==
    Returned(Get(m, t), LAMBDA g :
        [g EXCEPT !.r = RetVal(ContainerEqual(t, g.r.v, OperandOf(t, _vr)) = (op = "=="))])

\* variant: a destructor whose flush is not forced
Destructor_unforced(m) == IF m.variant = 1 THEN _flush_v1(m) ELSE _flush(m, FALSE)

\* ~CvarObfuscated
Destructor(m) == IF m.variant = 1 THEN _flush_v1(m) ELSE _flush(m, TRUE)

-----------------------------------------------------------------------------
(* The state machine *)

\* the allocator's placement policies
Pols == {"lo", "alt"}

\* values an uninitialised pointer member of the first variant may hold
Indeterminate == {0, StackBase}

NoVal == [kind |-> "none"]
NoOp == [op |-> "none", arg |-> NoVal, ret |-> NoVal, before |-> NoVal,
         empty |-> TRUE, rep |-> FALSE]

\* the machine an operation starts from: the container, the heap, the generator
\* state `seed`
Mach(seed) ==
    [heap |-> heap, bEmpty |-> m_bEmpty, arrVarAddr |-> m_arrVarAddr,
     arrConvert |-> m_arrConvert, perf |-> m_bPerfMode, variant |-> variant,
     seed |-> seed, rc |-> 0, pol |-> policy, na |-> 0, fault |-> fault, r |-> NoVal]

\* the machine's container and heap become the state
Commit(m) ==
    /\ heap' = m.heap
    /\ m_bEmpty' = m.bEmpty
    /\ m_arrVarAddr' = m.arrVarAddr
    /\ m_arrConvert' = m.arrConvert
    /\ fault' = m.fault

\* what the caller of an operation that ended in machine m gets
Outcome(m) == IF m.fault # "none" THEN RetFault ELSE m.r

\* the value of the plain variable (value-initialised until first written)
PlainValue == IF plain.has THEN plain.v ELSE DefaultOf(T)

\* a public operation can start: the object exists, its mutex is free, and
\* nothing undefined has happened
Callable == alive /\ m_mtx = 0 /\ fault = "none"

\* the lock_guard of an operation that ended with `ret`: released on return and
\* on a throw, held for ever by an operation that never returns
Released(ret) == IF ret.kind = "hang" THEN 1 ELSE 0

\* the generator states an operation is started in: all of them when the
\* operation draws from rand(), one when it does not
SeedsOf(draws) == IF draws THEN Seeds ELSE {1}

\* the state after construction of a CvarObfuscated<t> of one of the variants
InitOf(variants, types, pols, locals) ==
    /\ variant \in variants
    /\ T \in types
    /\ m_bPerfMode \in (IF variant = 1 THEN {FALSE} ELSE BOOLEAN)
    /\ policy \in pols
    /\ m_bEmpty = TRUE
    /\ m_arrVarAddr \in (IF variant = 1 THEN Indeterminate ELSE {0})
    /\ m_arrConvert \in (IF variant = 1 THEN Indeterminate ELSE {0})
    /\ m_mtx = 0
    /\ heap = [s \in 1..ArenaSlots |-> FreeBlock]
    /\ fault = "none"
    /\ alive = TRUE
    /\ thrown = FALSE
    /\ plain = [has |-> FALSE]
    /\ last = NoOp
    /\ pc = [t \in 1..NThreads |-> "idle"]
    /\ loc = [t \in 1..NThreads |-> locals]

Init == InitOf({1, 2}, Types, Pols, NoVal)

\* the end of a public operation that was started on the state and ended in
\* machine m: its effects and what is recorded of it
Done(m, op, arg) ==
    /\ Commit(m)
    /\ m_mtx' = Released(Outcome(m))
    /\ thrown' = (thrown \/ Outcome(m).kind = "throw")
    /\ last' = [op |-> op, arg |-> arg, ret |-> Outcome(m),
                before |-> RetVal(PlainValue),
                empty |-> m_bEmpty, rep |-> (op = "T" /\ last.op = "T")]

\* c = v for a v of vals
AssignOf(vals) ==
    /\ Callable
    /\ \E v \in vals, seed \in Seeds :
          /\ \E m \in {operator_assign(Mach(seed), T, v)} : Done(m, "=", RetVal(v))
          /\ plain' = [has |-> TRUE, v |-> v]
    /\ UNCHANGED <<variant, T, m_bPerfMode, policy, alive, pc, loc>>

\* c = v
Assign == AssignOf(ValuesOf(T))

\* T x = c
Read ==
    /\ Callable
    /\ \E seed \in SeedsOf(m_bEmpty) :
          \E m \in {operator_T(Mach(seed), T)} : Done(m, "T", NoVal)
    /\ UNCHANGED <<variant, T, m_bPerfMode, policy, alive, plain, pc, loc>>

\* the object goes out of scope
Destroy ==
    /\ Callable
    /\ \E m \in {Destructor(Mach(1))} :
          /\ Commit(m)
          /\ last' = [op |-> "~", arg |-> NoVal,
                      ret |-> IF m.fault # "none" THEN RetFault ELSE NoVal,
                      before |-> NoVal, empty |-> m_bEmpty, rep |-> FALSE]
    /\ alive' = FALSE
    /\ UNCHANGED <<variant, T, m_bPerfMode, policy, m_mtx, thrown, plain, pc, loc>>

Next == Assign \/ Read \/ Destroy

Spec == Init /\ [][Next]_vars

-----------------------------------------------------------------------------
(* The operators of CvarObfuscated<int32_t> *)

\* the values the integer container takes in SpecOps
OpsVals == {-1, 0, 1, 16, 496, 500, 1000, 1017}

\* the value first assigned in SpecOps
OpsStart == {496}

\* the generator state a write-back of SpecOps is started in
OpsSeeds == {13}

\* right operands of the compound operators (4, 2, 0x11, 0x00100010 and 1)
Operands == {1, 2, 4, 17, 1048592}

\* the operators without write-back, each with the right operands it is given
BinCases == {<<"+", 4>>, <<"-", 17>>, <<"*", 2>>, <<"/", 17>>, <<"%", 17>>,
             <<"&", 1048592>>, <<"|", 17>>, <<"^", 17>>, <<"<<", 2>>, <<">>", 2>>,
             <<"/", 0>>, <<"<<", 32>>}

\* == and != with their right operands
CmpCases == {<<"==", 496>>, <<"!=", 496>>, <<"==", 500>>}

\* x op k is an expression with defined behaviour on int32_t
Defined(op, x, k) ==
    CASE op \in {"/", "%"} -> k # 0 /\ ~(x = INT32_MIN /\ k = -1)
      [] op \in {"<<", ">>"} ->
            /\ x >= 0
            /\ k >= 0
            /\ k < 32
            /\ NativeOp(op, x, k) <= INT32_MAX
      [] OTHER -> NativeOp(op, x, k) >= INT32_MIN /\ NativeOp(op, x, k) <= INT32_MAX

\* the plain variable after `plain op= k`, when the operator returned
PlainAfter(ret, op, k) ==
    IF ret.kind = "val"
    THEN [has |-> TRUE, v |-> NativeOp(NativeOf(op), PlainValue, k)]
    ELSE plain

InitOps == InitOf({1, 2}, {"int32_t"}, {"alt"}, NoVal)

\* c = v
OpsAssign == AssignOf(OpsStart)

\* r = c op k
Binary ==
    /\ Callable
    /\ \E c \in BinCases, seed \in SeedsOf(m_bEmpty) :
          /\ c[1] \in BinaryOps
          /\ Defined(c[1], PlainValue, c[2])
          /\ \E m \in {operator_binary(Mach(seed), T, c[1], c[2])} :
                Done(m, c[1], RetVal(c[2]))
    /\ UNCHANGED <<variant, T, m_bPerfMode, policy, alive, plain, pc, loc>>

\* c op= k
Compound ==
    /\ Callable
    /\ \E op \in CompoundOps, k \in Operands, seed \in OpsSeeds :
          /\ Defined(NativeOf(op), PlainValue, k)
          /\ NativeOp(NativeOf(op), PlainValue, k) \in OpsVals
          /\ \E m \in {operator_compound(Mach(seed), T, op, k)} :
                /\ Done(m, op, RetVal(k))
                /\ plain' = PlainAfter(Outcome(m), op, k)
    /\ UNCHANGED <<variant, T, m_bPerfMode, policy, alive, pc, loc>>

\* ++c, c++, --c, c--
IncDec ==
    /\ Callable
    /\ \E op \in IncDecOps, seed \in OpsSeeds :
          /\ NativeOp(NativeOf(op), PlainValue, 1) \in OpsVals
          /\ \E m \in {operator_incdec(Mach(seed), T, op)} :
                /\ Done(m, op, RetVal(1))
                /\ plain' = PlainAfter(Outcome(m), op, 1)
    /\ UNCHANGED <<variant, T, m_bPerfMode, policy, alive, pc, loc>>

\* c == k, c != k
Compare ==
    /\ Callable
    /\ \E c \in CmpCases, seed \in SeedsOf(m_bEmpty) :
          /\ c[1] \in CompareOps
          /\ \E m \in {operator_compare(Mach(seed), T, c[1], c[2])} :
                Done(m, c[1], RetVal(c[2]))
    /\ UNCHANGED <<variant, T, m_bPerfMode, policy, alive, plain, pc, loc>>

NextOps == OpsAssign \/ Read \/ Binary \/ Compound \/ IncDec \/ Compare

SpecOps == InitOps /\ [][NextOps]_vars

-----------------------------------------------------------------------------
(* Threads: the public operations step by step, under the container's mutex *)

\* number of times a thread executes c += 1
MaxIncr == 1

Threads == 1..NThreads

\* the value assigned in SpecThreads
ThreadVals == {496}

\* the operators the threads call
ThreadOps == {"=", "+=", "T"}

\* the locals of a thread that has not called anything yet
ThreadLocals == [op |-> "none", val |-> 0, incs |-> 0]

\* variant: a lock_guard that does not wait for the mutex
lock_guard_nowait(t) == TRUE

\* const std::lock_guard<std::mutex> lock(m_mtx) can be constructed by thread
\* t: the mutex is free
lock_guard(t) == m_mtx = 0

InitThreads == InitOf({1, 2}, {"int32_t"}, {"lo"}, ThreadLocals)

\* thread t calls an operator and acquires the mutex in its first statement
Lock(t) ==
    /\ alive
    /\ fault = "none"
    /\ pc[t] = "idle"
    /\ lock_guard(t)
    /\ \E op \in ThreadOps, v \in ThreadVals :
          /\ op = "=" => ~plain.has
          /\ op = "+=" => loc[t].incs < MaxIncr
          /\ pc' = [pc EXCEPT ![t] = IF op = "=" THEN "flush" ELSE "get"]
          /\ loc' = [loc EXCEPT ![t].op = op, ![t].val = IF op = "=" THEN v ELSE 0]
    /\ m_mtx' = t
    /\ UNCHANGED <<variant, T, m_bPerfMode, m_bEmpty, m_arrVarAddr, m_arrConvert,
                   heap, fault, alive, plain, last, policy, thrown>>

\* thread t is at its call of _get
StepGet(t) ==
    /\ fault = "none"
    /\ pc[t] = "get"
    /\ \E seed \in OpsSeeds : \E m \in {Get(Mach(seed), T)} :
          /\ Commit(m)
          /\ IF Outcome(m).kind = "val"
             THEN /\ loc' = [loc EXCEPT ![t].val = Outcome(m).v]
                  /\ pc' = [pc EXCEPT ![t] = IF loc[t].op = "T" THEN "unlock"
                                                            ELSE "native"]
                  /\ UNCHANGED <<m_mtx, thrown, last>>
             ELSE /\ pc' = [pc EXCEPT ![t] = "idle"]
                  /\ m_mtx' = IF Outcome(m).kind = "throw" THEN 0 ELSE m_mtx
                  /\ thrown' = (thrown \/ Outcome(m).kind = "throw")
                  /\ last' = [op |-> loc[t].op, arg |-> NoVal, ret |-> Outcome(m),
                              before |-> RetVal(PlainValue), empty |-> m_bEmpty,
                              rep |-> FALSE]
                  /\ UNCHANGED loc
    /\ UNCHANGED <<variant, T, m_bPerfMode, alive, plain, policy>>

\* thread t computes val from what _get returned
StepNative(t) ==
    /\ fault = "none"
    /\ pc[t] = "native"
    /\ loc' = [loc EXCEPT ![t].val = NativeOp("+", loc[t].val, 1)]
    /\ pc' = [pc EXCEPT ![t] = "flush"]
    /\ UNCHANGED <<variant, T, m_bPerfMode, m_bEmpty, m_arrVarAddr, m_arrConvert,
                   m_mtx, heap, fault, alive, plain, last, policy, thrown>>

\* thread t is at the first statement of _set: the old buffers are released
StepFlush(t) ==
    /\ fault = "none"
    /\ pc[t] = "flush"
    /\ \E seed \in OpsSeeds :
          \E m \in {IF variant = 1 THEN _set_v1_flush(Mach(seed))
                    ELSE _flush(Mach(seed), FALSE)} : Commit(m)
    /\ pc' = [pc EXCEPT ![t] = "install"]
    /\ UNCHANGED <<variant, T, m_bPerfMode, m_mtx, alive, plain, last, policy,
                   thrown, loc>>

\* thread t executes the rest of _set: the new buffers are installed
StepInstall(t) ==
    /\ fault = "none"
    /\ pc[t] = "install"
    /\ \E seed \in OpsSeeds :
          \E m \in {IF variant = 1 THEN _set_v1_install(Mach(seed), T, loc[t].val)
                    ELSE _set_install(Mach(seed), T, loc[t].val)} : Commit(m)
    /\ pc' = [pc EXCEPT ![t] = "unlock"]
    /\ UNCHANGED <<variant, T, m_bPerfMode, m_mtx, alive, plain, last, policy,
                   thrown, loc>>

\* thread t returns: the lock_guard is destroyed
Unlock(t) ==
    /\ fault = "none"
    /\ pc[t] = "unlock"
    /\ m_mtx' = 0
    /\ pc' = [pc EXCEPT ![t] = "idle"]
    /\ loc' = [loc EXCEPT ![t].incs = IF loc[t].op = "+=" THEN @ + 1 ELSE @]
    /\ plain' = CASE loc[t].op = "=" -> [has |-> TRUE, v |-> loc[t].val]
                  [] loc[t].op = "+=" -> [has |-> TRUE, v |-> PlainValue + 1]
                  [] OTHER -> plain
    /\ last' = [op |-> loc[t].op, arg |-> NoVal, ret |-> RetVal(loc[t].val),
                before |-> RetVal(PlainValue), empty |-> FALSE, rep |-> FALSE]
    /\ UNCHANGED <<variant, T, m_bPerfMode, m_bEmpty, m_arrVarAddr, m_arrConvert,
                   heap, fault, alive, policy, thrown>>

NextThreads ==
    \E t \in Threads :
        Lock(t) \/ StepGet(t) \/ StepNative(t) \/ StepFlush(t) \/ StepInstall(t)
        \/ Unlock(t)

SpecThreads == InitThreads /\ [][NextThreads]_vars

-----------------------------------------------------------------------------
(* The for loop of _get, one iteration at a time *)

\* the texts assigned in SpecLoop
LoopVals == {StrBangQuest, Str5VRqw3slHk, StrLong}

InitLoop == InitOf({1, 2}, {"string"}, {"lo"}, NoVal)

\* c = v
LoopAssign == pc[1] = "idle" /\ AssignOf(LoopVals)

\* T x = c, up to the for loop of _get
ReadBegin ==
    /\ Callable
    /\ pc[1] = "idle"
    /\ ~m_bEmpty
    /\ \E m \in {_get_locals(Mach(1), IF variant = 1 THEN 0
                                      ELSE SpecsGet(Mach(1), "KeyReadOffset"))} :
          /\ Commit(m)
          /\ loc' = [loc EXCEPT ![1] = m.r]
    /\ m_mtx' = 1
    /\ pc' = [pc EXCEPT ![1] = "xor"]
    /\ UNCHANGED <<variant, T, m_bPerfMode, alive, plain, last, policy, thrown>>

\* one iteration of
\*   for (uint8_t i(0); i < iValSize; ++i)
\*       ui8ValBuff[i] ^= ptrKeyBuff[(iKeyReadOffset + i) % iKeySize];
XorStep ==
    /\ fault = "none"
    /\ pc[1] = "xor"
    /\ loc[1].i < loc[1].iValSize
    /\ \E m \in {XorWithKey(Mach(1), loc[1].ui8ValBuff + loc[1].i, 1,
                            loc[1].ptrKeyBuff, loc[1].iKeyReadOffset + loc[1].i,
                            loc[1].iKeySize)} : Commit(m)
    /\ loc' = [loc EXCEPT ![1].i = (@ + 1) % U8Mod]
    /\ UNCHANGED <<variant, T, m_bPerfMode, m_mtx, alive, plain, last, policy,
                   thrown, pc>>

\* the loop has ended: _return, delete[], return val; the lock_guard is destroyed
ReadEnd ==
    /\ fault = "none"
    /\ pc[1] = "xor"
    /\ ~(loc[1].i < loc[1].iValSize)
    /\ \E m \in {_get_return(Mach(1), T, loc[1].ui8ValBuff, loc[1].iValSize)} :
          /\ Commit(m)
          /\ last' = [op |-> "T", arg |-> NoVal, ret |-> Outcome(m),
                      before |-> RetVal(PlainValue), empty |-> FALSE,
                      rep |-> last.op = "T"]
    /\ m_mtx' = 0
    /\ pc' = [pc EXCEPT ![1] = "idle"]
    /\ loc' = [loc EXCEPT ![1] = NoVal]
    /\ UNCHANGED <<variant, T, m_bPerfMode, alive, plain, policy, thrown>>

NextLoop == LoopAssign \/ ReadBegin \/ XorStep \/ ReadEnd

\* a thread that can take its next step takes it
SpecLoop ==
    InitLoop /\ [][NextLoop]_vars /\ WF_vars(XorStep) /\ WF_vars(ReadEnd)

-----------------------------------------------------------------------------
(* CvarObfuscated<std::string>: assignment, += and read *)

\* the texts assigned in SpecText
TextVals == {<<>>, Str5VRqw3slHk, StrU8Max}

\* the texts appended in SpecText
TextTails == {<<>>, StrBangQuest}

\* the texts the container takes in SpecText
TextReach == {s \o t : s \in TextVals \cup {StrBangQuest}, t \in TextTails}

InitText == InitOf({1, 2}, {"string"}, {"lo"}, NoVal)

\* c = s
TextAssign == AssignOf(TextVals)

\* c += t
AppendText ==
    /\ Callable
    /\ \E t \in TextTails, seed \in Seeds :
          /\ PlainValue \o t \in TextReach
          /\ \E m \in {operator_append(Mach(seed), T, t)} :
                /\ Done(m, "+=", RetVal(t))
                /\ plain' = IF Outcome(m).kind = "val"
                            THEN [has |-> TRUE, v |-> PlainValue \o t]
                            ELSE plain
    /\ UNCHANGED <<variant, T, m_bPerfMode, policy, alive, pc, loc>>

NextText == TextAssign \/ AppendText \/ Read

SpecText == InitText /\ [][NextText]_vars

-----------------------------------------------------------------------------
(* CvarObfuscated<std::vector>, CvarObfuscated<std::map>: == and != *)

\* a std::vector<int32_t> whose elements fill LongLen bytes
VecLong == Tuple([i \in 1..(LongLen \div 4) |-> i - 1])

\* the values assigned in SpecEq
EqVals == IF T = "map" THEN MapVals ELSE VecVals \cup {VecLong}

\* the right operands of == and != in SpecEq; a map is given by the list of
\* its pairs in the order the caller wrote them
EqOperands ==
    IF T = "map"
    THEN {<<>>,
          <<<<0, INT32_MIN>>, <<2, 4352>>, <<1, INT32_MAX>>>>,
          <<<<1, INT32_MAX>>, <<0, INT32_MIN>>, <<2, 4352>>>>,
          <<<<0, INT32_MIN>>, <<1, INT32_MAX>>>>,
          <<<<7, -1>>, <<2, 4352>>>>,
          <<<<7, -1>>, <<2, 4353>>>>}
    ELSE {<<>>, <<INT32_MAX, 0, INT32_MIN>>, <<0, INT32_MAX, INT32_MIN>>,
          <<INT32_MAX, 0>>, <<0, 257>>, VecLong}

InitEq == InitOf({1, 2}, {"vector", "map"}, {"lo"}, NoVal)

\* c = v
EqAssign == AssignOf(EqVals)

\* c == v, c != v
Equal ==
    /\ Callable
    /\ \E op \in CompareOps, _vr \in EqOperands, seed \in SeedsOf(m_bEmpty) :
          \E m \in {operator_equal(Mach(seed), T, op, _vr)} :
              Done(m, op, RetVal(_vr))
    /\ UNCHANGED <<variant, T, m_bPerfMode, policy, alive, plain, pc, loc>>

NextEq == EqAssign \/ Equal

SpecEq == InitEq /\ [][NextEq]_vars

-----------------------------------------------------------------------------
(* CvarObfuscated<int32_t>: == and != *)

\* the values assigned and compared with in SpecCmp (496 and 752 have the same
\* low byte)
CmpVals == {-1, 0, 496, 752, INT32_MIN}

InitCmp == InitOf({1, 2}, {"int32_t"}, {"lo"}, NoVal)

\* c = v
CmpAssign == AssignOf(CmpVals)

\* c == v, c != v
CompareInt ==
    /\ Callable
    /\ \E op \in CompareOps, _vr \in CmpVals, seed \in SeedsOf(m_bEmpty) :
          \E m \in {operator_compare(Mach(seed), T, op, _vr)} :
              Done(m, op, RetVal(_vr))
    /\ UNCHANGED <<variant, T, m_bPerfMode, policy, alive, plain, pc, loc>>

NextCmp == CmpAssign \/ CompareInt

SpecCmp == InitCmp /\ [][NextCmp]_vars

-----------------------------------------------------------------------------
(* CvarObfuscated<std::string>: == and != *)

\* a text longer than SsoCapacity
StrTwice == Str5VRqw3slHk \o Str5VRqw3slHk

\* the texts assigned in SpecStr: empty, short, and longer than SsoCapacity
StrTexts == {<<>>, Str5VRqw3slHk, StrTwice}

\* the right operands of == and != in SpecStr
StrOperands == StrTexts \cup {StrBangQuest}

\* the layout of std::string of the build, and the unused bytes of the two
\* objects of the last comparison
InitStr ==
    \E layout \in StringLayouts :
        InitOf({1, 2}, {"string"}, {"lo"}, [layout |-> layout, slackL |-> 0, slackR |-> 0])

\* c = s
StrAssign == AssignOf(StrTexts)

\* c == s, c != s
CompareStr ==
    /\ Callable
    /\ \E seed \in SeedsOf(m_bEmpty) :
          \E g \in {Get(Mach(seed), T)} :
             \E op \in CompareOps, _vr \in StrOperands, slackL \in Slack, slackR \in Slack :
                /\ \E m \in {operator_compare_memcmp(g, op, _vr, loc[1].layout,
                                                      slackL, slackR)} :
                      Done(m, op, RetVal(_vr))
                /\ loc' = [loc EXCEPT ![1] = [layout |-> loc[1].layout,
                                              slackL |-> slackL, slackR |-> slackR]]
    /\ UNCHANGED <<variant, T, m_bPerfMode, policy, alive, plain, pc>>

NextStr == StrAssign \/ CompareStr

SpecStr == InitStr /\ [][NextStr]_vars

-----------------------------------------------------------------------------
(* The chain of hops, one step at a time: _ptrFold, _ptrUnfold, _ptrFlush *)

\* the hop numbers rand() % 7 + 1 can give
Hops == 1..7

\* where in its buffer the pointer handed to _ptrFold points: its first byte,
\* an 8-byte aligned byte further on, and two bytes that are not 8-byte aligned
BuffOffsets == {0, PtrSize, 3, PtrSize + 5}

\* the placement policies of SpecChain: cells above the buffer, on both sides
\* of it, below it
ChainPols == {"lo", "alt", "hi"}

\* the locals of the chain functions before any of them has run
ChainLocals == [h |-> 0, buff |-> 0, off |-> 0, base |-> {}, p |-> 0, prev |-> 0,
                d |-> 0, i |-> 0]

LiveIn(h) == {s \in 1..ArenaSlots : h[s].kind # "free"}
CellsIn(h) == {s \in 1..ArenaSlots : h[s].kind = "cell"}

InitChain == InitOf({1, 2}, {"int32_t"}, ChainPols, ChainLocals)

\* _alloc: the two arrays and the blocks of the specifications
ChainAlloc ==
    /\ fault = "none"
    /\ pc[1] = "idle"
    /\ \E seed \in OpsSeeds :
          \E m \in {IF variant = 1 THEN _alloc_v1(Mach(seed)) ELSE _alloc(Mach(seed))} :
              Commit(m)
    /\ pc' = [pc EXCEPT ![1] = "ready"]
    /\ UNCHANGED <<variant, T, m_bPerfMode, m_mtx, alive, plain, last, policy,
                   thrown, loc>>

\* the hop number is stored, a buffer is allocated and _ptrFold builds a chain
\* of h cells in front of the pointer into it
Fold ==
    /\ fault = "none"
    /\ pc[1] = "ready"
    /\ \E h \in Hops, off \in BuffOffsets, seed \in OpsSeeds :
          \E m0 \in {NewBytes(SpecsSet(Mach(seed), "ValHopNbr", h), 2 * PtrSize)} :
          \E m \in {_ptrFold(m0, h, "ValPtr", m0.r + off)} :
              /\ m0.fault = "none"
              /\ Commit(m)
              /\ loc' = [loc EXCEPT ![1] = [ChainLocals EXCEPT
                             !.h = h, !.off = off, !.buff = m0.r + off,
                             !.base = LiveIn(heap)]]
    /\ pc' = [pc EXCEPT ![1] = "folded"]
    /\ UNCHANGED <<variant, T, m_bPerfMode, m_mtx, alive, plain, last, policy, thrown>>

\* _ptrUnfold up to its for loop: the pointer and the hop number are unmasked
UnfoldBegin ==
    /\ fault = "none"
    /\ pc[1] = "folded"
    /\ loc' = [loc EXCEPT ![1].p = SpecsGet(Mach(1), "ValPtr"), ![1].i = 0]
    /\ pc' = [pc EXCEPT ![1] = "walk"]
    /\ UNCHANGED <<variant, T, m_bPerfMode, m_bEmpty, m_arrVarAddr, m_arrConvert,
                   m_mtx, heap, fault, alive, plain, last, policy, thrown>>

\* _ptrFlush up to its for loop: the pointer and the hop number are unmasked
FlushBegin ==
    /\ fault = "none"
    /\ pc[1] = "folded"
    /\ loc' = [loc EXCEPT ![1].p = SpecsGet(Mach(1), "ValPtr"), ![1].i = 0]
    /\ pc' = [pc EXCEPT ![1] = "flush"]
    /\ UNCHANGED <<variant, T, m_bPerfMode, m_bEmpty, m_arrVarAddr, m_arrConvert,
                   m_mtx, heap, fault, alive, plain, last, policy, thrown>>

\* one iteration of the for loop of _ptrUnfold: _ptrUnfold_Walker(&uiPtr)
WalkStep ==
    /\ fault = "none"
    /\ pc[1] = "walk"
    /\ loc[1].i < SpecsGet(Mach(1), "ValHopNbr")
    /\ IF IsCell(heap, loc[1].p)
       THEN /\ loc' = [loc EXCEPT ![1].p = _ptrUnfold_Walker(heap, loc[1].p),
                                  ![1].prev = loc[1].p,
                                  ![1].d = CellAt(heap, loc[1].p),
                                  ![1].i = @ + 1]
            /\ fault' = fault
       ELSE /\ fault' = "wild_read"
            /\ loc' = loc
    /\ UNCHANGED <<variant, T, m_bPerfMode, m_bEmpty, m_arrVarAddr, m_arrConvert,
                   m_mtx, heap, alive, plain, last, policy, thrown, pc>>

\* the for loop of _ptrUnfold has ended: return uiPtr
UnfoldEnd ==
    /\ fault = "none"
    /\ pc[1] = "walk"
    /\ ~(loc[1].i < SpecsGet(Mach(1), "ValHopNbr"))
    /\ pc' = [pc EXCEPT ![1] = "unfolded"]
    /\ UNCHANGED <<variant, T, m_bPerfMode, m_bEmpty, m_arrVarAddr, m_arrConvert,
                   m_mtx, heap, fault, alive, plain, last, policy, thrown, loc>>

\* the caller of _ptrUnfold goes on
UnfoldReturn ==
    /\ fault = "none"
    /\ pc[1] = "unfolded"
    /\ pc' = [pc EXCEPT ![1] = "folded"]
    /\ UNCHANGED <<variant, T, m_bPerfMode, m_bEmpty, m_arrVarAddr, m_arrConvert,
                   m_mtx, heap, fault, alive, plain, last, policy, thrown, loc>>

\* one iteration of the for loop of _ptrFlush
FlushStep ==
    /\ fault = "none"
    /\ pc[1] = "flush"
    /\ loc[1].i < SpecsGet(Mach(1), "ValHopNbr")
    /\ \E m \in {_ptrFlush_body(Mach(1), loc[1].p)} :
          /\ Commit(m)
          /\ loc' = [loc EXCEPT ![1].p = m.r, ![1].prev = loc[1].p,
                                ![1].d = CellAt(heap, loc[1].p), ![1].i = @ + 1]
    /\ UNCHANGED <<variant, T, m_bPerfMode, m_mtx, alive, plain, last, policy,
                   thrown, pc>>

\* the for loop of _ptrFlush has ended: delete[] uiPtrCurr
FlushEnd ==
    /\ fault = "none"
    /\ pc[1] = "flush"
    /\ ~(loc[1].i < SpecsGet(Mach(1), "ValHopNbr"))
    /\ \E m \in {Delete(Mach(1), loc[1].p)} : Commit(m)
    /\ pc' = [pc EXCEPT ![1] = "flushed"]
    /\ UNCHANGED <<variant, T, m_bPerfMode, m_mtx, alive, plain, last, policy,
                   thrown, loc>>

NextChain ==
    \/ ChainAlloc
    \/ Fold
    \/ UnfoldBegin
    \/ WalkStep
    \/ UnfoldEnd
    \/ UnfoldReturn
    \/ FlushBegin
    \/ FlushStep
    \/ FlushEnd

SpecChain == InitChain /\ [][NextChain]_vars

-----------------------------------------------------------------------------
(* The layout a write draws *)

\* the values written in SpecLayout: an integer, the empty string and a string
\* of ten characters
LayoutVals == [int32_t |-> {496}, string |-> {<<>>, Str5VRqw3slHk}]

InitLayout == InitOf({1, 2}, {"int32_t", "string"}, {"lo"}, [seed |-> 0])

\* c = v, started in any of the generator states of LayoutSeeds; the generator
\* state is recorded
LayoutAssign ==
    /\ Callable
    /\ \E v \in LayoutVals[T], seed \in LayoutSeeds :
          /\ \E m \in {operator_assign(Mach(seed), T, v)} : Done(m, "=", RetVal(v))
          /\ plain' = [has |-> TRUE, v |-> v]
          /\ loc' = [loc EXCEPT ![1] = [seed |-> seed]]
    /\ UNCHANGED <<variant, T, m_bPerfMode, policy, alive, pc>>

NextLayout == LayoutAssign \/ Read

SpecLayout == InitLayout /\ [][NextLayout]_vars

-----------------------------------------------------------------------------
(* CvarMasked::set as a function of its argument and of the result of rand() *)

\* results of rand() the mask is drawn from in SpecMask
MaskDraws == {0, 1, U8Max - 1, U8Max, U8Mod, 16384, RandMax}

\* what the program stores in a CvarMasked of each width: hop numbers and read
\* offsets, sizes and offsets, addresses
MaskVals == [w8 |-> {1, 7, 62}, w32 |-> {0, 4, 63},
             w64 |-> {HeapBase, HeapBase + 31 * SlotStride}]

MaskLocals == [which |-> "none", width |-> 0, v |-> 0, r |-> 0, mv |-> MaskedZero]

InitMask == InitOf({1, 2}, {"int32_t"}, {"lo"}, MaskLocals)

\* ...->set(v) on the CvarMasked of one specification, rand() returning r
MaskSet ==
    /\ \E which \in (IF variant = 1 THEN DOMAIN Especs_v1 ELSE DOMAIN SpecsOwner) :
          \E r \in MaskDraws :
             \E v \in (CASE SpecsWidth[which] = 8 -> MaskVals.w8
                           [] SpecsWidth[which] = 32 -> MaskVals.w32
                           [] OTHER -> MaskVals.w64) :
                loc' = [loc EXCEPT ![1] = [which |-> which,
                                           width |-> SpecsWidth[which],
                                           v |-> v, r |-> r,
                                           mv |-> CvarMasked_set(v, r, SpecsWidth[which])]]
    /\ pc' = [pc EXCEPT ![1] = "masked"]
    /\ UNCHANGED <<variant, T, m_bPerfMode, policy, m_bEmpty, m_arrVarAddr,
                   m_arrConvert, m_mtx, heap, fault, alive, thrown, plain, last>>

NextMask == MaskSet

SpecMask == InitMask /\ [][NextMask]_vars

-----------------------------------------------------------------------------
(* _sizeVal, _castVal and _return as functions of the value *)

\* longest std::vector given to the three functions
MaxVec == 3

\* elements of the vectors and values of the maps
CodecInts == {-1, 0, INT32_MAX, INT32_MIN}

\* keys of the maps
CodecKeys == {0, 7, U8Max}

\* the values given to the three functions
CodecVals ==
    [string |-> {<<>>, Str5VRqw3slHk, StrU8Max, StrLong},
     vector |-> UNION {[1..n -> CodecInts] : n \in 0..MaxVec},
     map |-> UNION {[S -> CodecInts \ {-1}] : S \in SUBSET CodecKeys}]

CodecLocals == [v |-> <<>>, iSize |-> 0, ui8Ptr |-> <<>>, val |-> <<>>]

InitCodec == InitOf({2}, {"string", "vector", "map"}, {"lo"}, CodecLocals)

\* int iSize(_sizeVal(_val)); _castVal(_val, iSize, ui8Ptr)
CastVal ==
    /\ \E v \in CodecVals[T] :
          loc' = [loc EXCEPT ![1] = [v |-> v, iSize |-> _sizeVal(T, v),
                                     ui8Ptr |-> _castVal(T, v), val |-> <<>>]]
    /\ pc' = [pc EXCEPT ![1] = "cast"]
    /\ UNCHANGED <<variant, T, m_bPerfMode, policy, m_bEmpty, m_arrVarAddr,
                   m_arrConvert, m_mtx, heap, fault, alive, thrown, plain, last>>

\* T val; _return(&val, ui8Ptr, iSize)
ReturnVal ==
    /\ pc[1] = "cast"
    /\ loc' = [loc EXCEPT ![1].val = _return(T, loc[1].ui8Ptr, loc[1].iSize)]
    /\ pc' = [pc EXCEPT ![1] = "returned"]
    /\ UNCHANGED <<variant, T, m_bPerfMode, policy, m_bEmpty, m_arrVarAddr,
                   m_arrConvert, m_mtx, heap, fault, alive, thrown, plain, last>>

NextCodec == CastVal \/ ReturnVal

SpecCodec == InitCodec /\ [][NextCodec]_vars

-----------------------------------------------------------------------------
(* Two containers: threads evaluating `x op y` with x and y CvarObfuscated<int32_t>. *)
(* Each container has its own m_mtx; what the containers store plays no part here.  *)

\* CvarObfuscated<int32_t> ovA, ovB
Containers == {"ovA", "ovB"}

\* the operators of the expressions
PairOps == {"+", "+=", "=="}

PairLocals == [op |-> "none", x |-> "ovA", y |-> "ovA"]

\* variant: a lock_guard whose destructor leaves the mutex locked
lock_guard_release_never(mtx, c) == mtx

\* ~lock_guard: the mutex of container c is unlocked on return
lock_guard_release(mtx, c) == [mtx EXCEPT ![c] = 0]

InitPair ==
    /\ variant \in {1, 2}
    /\ T = "int32_t"
    /\ m_bPerfMode = FALSE
    /\ policy = "lo"
    /\ m_bEmpty = FALSE
    /\ m_arrVarAddr = 0
    /\ m_arrConvert = 0
    /\ m_mtx = [c \in Containers |-> 0]
    /\ heap = [s \in 1..ArenaSlots |-> FreeBlock]
    /\ fault = "none"
    /\ alive = TRUE
    /\ thrown = FALSE
    /\ plain = [has |-> FALSE]
    /\ last = NoOp
    /\ pc = [t \in Threads |-> "idle"]
    /\ loc = [t \in Threads |-> PairLocals]

\* thread t starts to evaluate x op y: the argument of x.operator op(const T &)
\* is y converted by y.operator T(), evaluated before the call
PairCall(t) ==
    /\ pc[t] = "idle"
    /\ \E op \in PairOps, x \in Containers, y \in Containers :
          loc' = [loc EXCEPT ![t] = [op |-> op, x |-> x, y |-> y]]
    /\ pc' = [pc EXCEPT ![t] = "conv"]
    /\ UNCHANGED <<variant, T, m_bPerfMode, m_bEmpty, m_arrVarAddr, m_arrConvert,
                   m_mtx, heap, fault, alive, plain, last, policy, thrown>>

\* y.operator T(): const std::lock_guard<std::mutex> lock(m_mtx)
ConvLock(t) ==
    /\ pc[t] = "conv"
    /\ m_mtx[loc[t].y] = 0
    /\ m_mtx' = [m_mtx EXCEPT ![loc[t].y] = t]
    /\ pc' = [pc EXCEPT ![t] = "conv_get"]
    /\ UNCHANGED <<variant, T, m_bPerfMode, m_bEmpty, m_arrVarAddr, m_arrConvert,
                   heap, fault, alive, plain, last, policy, thrown, loc>>

\* y.operator T(): return _get(); the lock_guard is destroyed
ConvReturn(t) ==
    /\ pc[t] = "conv_get"
    /\ m_mtx' = lock_guard_release(m_mtx, loc[t].y)
    /\ pc' = [pc EXCEPT ![t] = "op"]
    /\ UNCHANGED <<variant, T, m_bPerfMode, m_bEmpty, m_arrVarAddr, m_arrConvert,
                   heap, fault, alive, plain, last, policy, thrown, loc>>

\* x.operator op(_val): const std::lock_guard<std::mutex> lock(m_mtx)
OpLock(t) ==
    /\ pc[t] = "op"
    /\ m_mtx[loc[t].x] = 0
    /\ m_mtx' = [m_mtx EXCEPT ![loc[t].x] = t]
    /\ pc' = [pc EXCEPT ![t] = "op_body"]
    /\ UNCHANGED <<variant, T, m_bPerfMode, m_bEmpty, m_arrVarAddr, m_arrConvert,
                   heap, fault, alive, plain, last, policy, thrown, loc>>

\* x.operator op(_val): the body and the return; the lock_guard is destroyed
OpReturn(t) ==
    /\ pc[t] = "op_body"
    /\ loc' = [loc EXCEPT ![t] = PairLocals]
    /\ m_mtx' = lock_guard_release(m_mtx, loc[t].x)
    /\ pc' = [pc EXCEPT ![t] = "idle"]
    /\ UNCHANGED <<variant, T, m_bPerfMode, m_bEmpty, m_arrVarAddr, m_arrConvert,
                   heap, fault, alive, plain, last, policy, thrown>>

NextPair ==
    \E t \in Threads :
        PairCall(t) \/ ConvLock(t) \/ ConvReturn(t) \/ OpLock(t) \/ OpReturn(t)

SpecPair == InitPair /\ [][NextPair]_vars

-----------------------------------------------------------------------------
(* The container seen from outside *)

\* what a read of the container in this state returns
Decoded == Get(Mach(1), T).r

LiveSlots == {s \in 1..ArenaSlots : heap[s].kind # "free"}


\* the names of the specifications of the variant in use
SpecsNames == IF variant = 1 THEN DOMAIN Especs_v1 ELSE DOMAIN SpecsOwner

RECURSIVE ChainSlots(_, _, _)
\* the slots of the n cells of the chain that starts at address p, and of what
\* the chain ends at
ChainSlots(h, p, n) ==
    IF n <= 0 THEN {SlotOf(p)}
    ELSE {SlotOf(p)} \cup ChainSlots(h, _ptrUnfold_Walker(h, p), n - 1)

\* the slots the container refers to: the two arrays, the blocks of the
\* specifications, both chains and the two buffers
OwnedSlots ==
    {SlotOf(m_arrVarAddr), SlotOf(m_arrConvert)}
    \cup {SlotOf(SpecsBlockAddr(Mach(1), w)) : w \in SpecsNames}
    \cup ChainSlots(heap, SpecsGet(Mach(1), "ValPtr"), SpecsGet(Mach(1), "ValHopNbr"))
    \cup ChainSlots(heap, SpecsGet(Mach(1), "KeyPtr"), SpecsGet(Mach(1), "KeyHopNbr"))

\* the number of allocations one write makes for the container
OwnedCount ==
    2 + (IF variant = 1 THEN 8 ELSE 2)
    + SpecsGet(Mach(1), "ValHopNbr") + 1 + SpecsGet(Mach(1), "KeyHopNbr") + 1

\* both chains lead, over live cells, to a live byte buffer
ChainsValid ==
    /\ _ptrUnfold(Mach(1), "ValPtr", "ValHopNbr").fault = "none"
    /\ _ptrUnfold(Mach(1), "KeyPtr", "KeyHopNbr").fault = "none"
    /\ BlockAt(heap, _ptrUnfold(Mach(1), "ValPtr", "ValHopNbr").r).kind = "bytes"
    /\ BlockAt(heap, _ptrUnfold(Mach(1), "KeyPtr", "KeyHopNbr").r).kind = "bytes"

\* what the container of machine m stores for its value: the unmasked sizes,
\* offsets and hop numbers, and the bytes of the key and payload buffers
Layout(m) ==
    [iKeySize |-> SpecsGet(m, "KeySize"), iKeyOffset |-> SpecsGet(m, "KeyOffset"),
     iValOffset |-> SpecsGet(m, "ValOffset"),
     ui8KeyHopNbr |-> SpecsGet(m, "KeyHopNbr"),
     ui8ValHopNbr |-> SpecsGet(m, "ValHopNbr"),
     ui8KeyBuff |-> BlockAt(m.heap, _ptrUnfold(m, "KeyPtr", "KeyHopNbr").r),
     ui8ValBuff |-> BlockAt(m.heap, _ptrUnfold(m, "ValPtr", "ValHopNbr").r)]

\* the operators that write the container, and those that read it
WriteOps == {"="} \cup CompoundOps \cup IncDecOps
ReadingOps == {"T"} \cup BinaryOps \cup CompoundOps \cup IncDecOps \cup CompareOps


-----------------------------------------------------------------------------
(* Properties *)

\* C1: round trip. Whenever a value v has been assigned to the container, a
\* read of the container returns a value equal to v, for every type, value
\* and random choice.
C1_RoundTrip ==
    (last.op = "T" /\ plain.has) => last.ret = RetVal(plain.v)

\* the four steps of the chained example: value before, operator, operand,
\* value after
ChainSteps == {<<496, "+=", 4, 500>>, <<500, "*=", 2, 1000>>,
               <<1000, "^=", 17, 1017>>, <<1017, "&=", 1048592, 16>>}

\* C2: compound operator equivalence. After c op= k (op in + - * / & | ^) or
\* ++ / -- on an integer container holding x, a read of the container returns
\* x op k (x + 1, x - 1); the steps of 496, += 4, *= 2, ^= 0x11,
\* &= 0x00100010 give 500, 1000, 1017, 16.
C2_CompoundEquivalence ==
    (/\ last.op \in CompoundOps \cup IncDecOps
     /\ ~(variant = 1 /\ last.empty))
    => /\ Decoded = RetVal(NativeOp(NativeOf(last.op), last.before.v, last.arg.v))
       /\ \A c \in ChainSteps :
             (last.before = RetVal(c[1]) /\ last.op = c[2] /\ last.arg = RetVal(c[3]))
             => Decoded = RetVal(c[4])

C2_Witness ==
    /\ last.op = "&="
    /\ last.before = RetVal(1017)
    /\ last.arg = RetVal(1048592)
    /\ Decoded = RetVal(16)

\* C3: non-compound operator purity. On a container holding x each of
\* + - * / % & | ^ << >> returns x op k and writes nothing back: the heap, the
\* two arrays and the flag are unchanged and a read afterwards returns x.
C3_BinaryIsPure ==
    /\ [][(last'.op \in BinaryOps /\ ~m_bEmpty /\ Decoded.kind = "val")
          => /\ last'.ret = RetVal(NativeOp(last'.op, Decoded.v, last'.arg.v))
             /\ heap' = heap
             /\ m_arrVarAddr' = m_arrVarAddr
             /\ m_arrConvert' = m_arrConvert
             /\ m_bEmpty' = m_bEmpty]_vars
    /\ []((last.op \in BinaryOps /\ ~last.empty) => Decoded = last.before)

C3_Witness ==
    /\ last.op = "<<"
    /\ ~last.empty
    /\ last.before = RetVal(1017)
    /\ last.ret = RetVal(4068)
    /\ Decoded = RetVal(1017)

\* C4: a read of an Initialized container does not change what is stored:
\* every live block (masked specifications, chains, key, payload) and the two
\* arrays are as before, a read that returns leaves the whole heap as it was,
\* and a read that follows a read returns the same value.
C4_ReadIsPure ==
    [][(last'.op = "T" /\ ~m_bEmpty)
       => /\ \A s \in 1..ArenaSlots : heap[s].kind # "free" => heap'[s] = heap[s]
          /\ m_arrVarAddr' = m_arrVarAddr
          /\ m_arrConvert' = m_arrConvert
          /\ m_bEmpty' = m_bEmpty
          /\ last'.ret.kind = "val" => heap' = heap
          /\ last.op = "T" => last'.ret = last.ret]_vars

C4_Witness ==
    /\ T = "map"
    /\ last.op = "T"
    /\ last.rep
    /\ ~last.empty
    /\ plain.has
    /\ last.ret = RetVal(plain.v)

\* C7: first variant. On a never-assigned container the conversion operator
\* and every operator throw; the container stays Empty, nothing is allocated
\* or written, the mutex is free, and a later assignment and read succeed.
C7_EmptyThrows ==
    /\ (variant = 1 /\ last.empty /\ last.op \in ReadingOps)
       => /\ last.ret = RetThrow
          /\ m_bEmpty
          /\ LiveSlots = {}
          /\ m_arrVarAddr \in Indeterminate
          /\ m_arrConvert \in Indeterminate
          /\ m_mtx = 0
          /\ fault = "none"
    /\ (variant = 1 /\ thrown /\ last.op = "=")
       => (last.ret = RetVal(plain.v) /\ ~m_bEmpty /\ fault = "none")
    /\ (variant = 1 /\ thrown /\ last.op = "T" /\ ~last.empty)
       => last.ret = RetVal(plain.v)

C7_Witness ==
    /\ variant = 1
    /\ thrown
    /\ last.op = "T"
    /\ ~last.empty
    /\ last.ret = RetVal(496)

\* what an operator applied to a container holding x returns, and what the
\* container holds afterwards
ExpectedRet(op, x, arg) ==
    CASE op = "T" -> x
      [] op \in BinaryOps -> NativeOp(op, x, arg.v)
      [] op \in CompoundOps \cup IncDecOps -> NativeOp(NativeOf(op), x, arg.v)
      [] op \in CompareOps -> ((x = arg.v) = (op = "=="))
ExpectedStored(op, x, arg) ==
    IF op \in CompoundOps \cup IncDecOps THEN NativeOp(NativeOf(op), x, arg.v) ELSE x

C9_WriteFreesPrevious ==
    (alive /\ ~m_bPerfMode /\ ~last.empty /\ last.op \in WriteOps)
    => /\ fault = "none"
       /\ LiveSlots = OwnedSlots
       /\ Cardinality(LiveSlots) = OwnedCount

C9_Witness ==
    /\ alive
    /\ ~m_bPerfMode
    /\ ~last.empty
    /\ last.op = "*="
    /\ variant = 2
    /\ Cardinality(LiveSlots) = OwnedCount

\* C10: when an Initialized container is destroyed, every chain cell, the key
\* buffer, the payload buffer and the blocks of the specifications are freed
\* exactly once and nothing stays allocated, also in performance mode.
C10_DestroyFreesAll ==
    (~alive /\ ~last.empty) => (fault = "none" /\ LiveSlots = {})

C10_Witness ==
    /\ ~alive
    /\ ~last.empty
    /\ m_bPerfMode
    /\ plain.has
    /\ LiveSlots = {}


\* C11: for a text container holding s and every text t, c += t appends: the
\* operator returns s followed by t, a read afterwards returns that same text,
\* and its length is |s| + |t| ("5VRqw3slHk" then "!?" gives "5VRqw3slHk!?").
C11_AppendConcatenates ==
    (T = "string" /\ last.op = "+=" /\ ~last.empty)
    => /\ last.ret = RetVal(last.before.v \o last.arg.v)
       /\ Decoded = RetVal(last.before.v \o last.arg.v)
       /\ Len(Decoded.v) = Len(last.before.v) + Len(last.arg.v)
       /\ (last.before.v = Str5VRqw3slHk /\ last.arg.v = StrBangQuest)
          => Decoded.v = <<53, 86, 82, 113, 119, 51, 115, 108, 72, 107, 33, 63>>

\* the key/value pairs of a map, and of a list of pairs
PairsOf(f) == {<<k, f[k]>> : k \in DOMAIN f}
PairsIn(l) == {l[i] : i \in DOMAIN l}

\* C12: for a map container holding map1, c == map2 is true iff map1 and map2
\* contain exactly the same key/value pairs, in whatever order the pairs were
\* listed, and c != map2 is its negation; for a sequence container the
\* comparison is element by element and sensitive to the order.
C12_ContainerEquality ==
    (T \in {"vector", "map"} /\ last.op \in CompareOps /\ ~(variant = 1 /\ last.empty))
    => last.ret =
          RetVal((IF T = "map"
                  THEN PairsOf(last.before.v) = PairsIn(last.arg.v)
                  ELSE last.before.v = last.arg.v) = (last.op = "=="))

\* C13: for an integer container holding x and every operand v, c == v returns
\* true iff x = v and c != v returns the negation of c == v; a comparison
\* changes nothing that is stored, and a read afterwards returns x.
C13_ScalarEquality ==
    /\ [][(last'.op \in CompareOps /\ ~m_bEmpty)
          => /\ heap' = heap
             /\ m_arrVarAddr' = m_arrVarAddr
             /\ m_arrConvert' = m_arrConvert
             /\ m_bEmpty' = m_bEmpty]_vars
    /\ []((T = "int32_t" /\ last.op \in CompareOps /\ ~(variant = 1 /\ last.empty))
          => /\ last.ret = RetVal((last.before.v = last.arg.v) = (last.op = "=="))
             /\ operator_compare(Mach(1), T, "!=", last.arg.v).r
                  = RetVal(~operator_compare(Mach(1), T, "==", last.arg.v).r.v)
             /\ Decoded = last.before)

C13_Witness ==
    /\ T = "int32_t"
    /\ last.op = "!="
    /\ ~last.empty
    /\ last.before = RetVal(496)
    /\ last.arg = RetVal(752)
    /\ last.ret = RetVal(TRUE)
    /\ Decoded = RetVal(496)

\* the assignment c = v started in generator states s1 and s2 gives two
\* containers that store v differently and both read as v
StoredDifferently(v, s1, s2) ==
    With(operator_assign(Mach(s1), T, v), LAMBDA a :
    With(operator_assign(Mach(s2), T, v), LAMBDA b :
        /\ a.fault = "none"
        /\ b.fault = "none"
        /\ Layout(a) # Layout(b)
        /\ Get(a, T).r = RetVal(v)
        /\ Get(b, T).r = RetVal(v)))

\* C14: independence of representation. What is stored for a value v is not
\* a function of v alone: from every state of the container there are two
\* executions of the same assignment of v, differing only in the random draws,
\* in which the key bytes, the ciphered payload bytes, the offsets or the hop
\* numbers differ, while a read returns v in both.
C14_RepresentationVaries ==
    (Callable /\ T = "int32_t")
    => \A v \in {496, PlainValue} :
          \E s1 \in Seeds, s2 \in Seeds : StoredDifferently(v, s1, s2)

C14_Witness ==
    /\ Callable
    /\ T = "int32_t"
    /\ ~m_bPerfMode
    /\ plain = [has |-> TRUE, v |-> 496]
    /\ StoredDifferently(496, 1, 13)
    /\ Layout(operator_assign(Mach(1), T, 496)).ui8KeyBuff
         # Layout(operator_assign(Mach(13), T, 496)).ui8KeyBuff

\* what the operator last applied yields on a plain variable of type T that
\* held last.before
PlainResult ==
    IF T = "string" /\ last.op = "+=" THEN last.before.v \o last.arg.v
    ELSE ExpectedRet(last.op, last.before.v, last.arg)

\* C15: over any sequence of assignments, compound operators, increments,
\* decrements, non-compound operators and reads on one container, every
\* operator that reads returns exactly what a plain variable of type T put
\* through the same sequence yields: the most recently written value, never an
\* earlier one.
C15_ReadsFollowPlain ==
    (last.op \in ReadingOps /\ ~(variant = 1 /\ last.empty))
    => last.ret = RetVal(PlainResult)

\* the pointer handed to _ptrFold is 8-byte aligned
BuffAligned == loc[1].buff % PtrSize = 0

\* C16: PointerChain round trip. For every hop number h in 1..7, when the
\* chain was built by _ptrFold with h hops in front of a buffer pointer at an
\* 8-byte aligned address, _ptrUnfold with the masked head and the same h
\* returns exactly that pointer, through live cells only.
C16_ChainRoundTrip ==
    /\ (pc[1] \in {"folded", "unfolded"} /\ BuffAligned)
       => /\ fault = "none"
          /\ SpecsGet(Mach(1), "ValHopNbr") = loc[1].h
          /\ _ptrUnfold(Mach(1), "ValPtr", "ValHopNbr").fault = "none"
          /\ _ptrUnfold(Mach(1), "ValPtr", "ValHopNbr").r = loc[1].buff
    /\ (pc[1] = "unfolded" /\ BuffAligned) => loc[1].p = loc[1].buff

C16_Witness ==
    /\ pc[1] = "unfolded"
    /\ loc[1].h = 7
    /\ loc[1].off = PtrSize
    /\ policy = "alt"
    /\ loc[1].p = loc[1].buff

\* a step of the walk has just been taken (by _ptrUnfold or by _ptrFlush)
Walked == pc[1] \in {"walk", "flush", "unfolded", "flushed"} /\ loc[1].i > 0

C18_FoldFlushCells ==
    /\ [][(pc[1] = "flush" /\ pc'[1] = "flush" /\ loc[1].off = 0)
          => /\ IsCell(heap, loc[1].p)
             /\ heap' = [heap EXCEPT ![SlotOf(loc[1].p)] = FreeBlock]
             /\ fault' = "none"]_vars
    /\ []((pc[1] = "folded")
          => /\ fault = "none"
             /\ loc[1].base \subseteq LiveIn(heap)
             /\ CellsIn(heap) \cap loc[1].base = {}
             /\ Cardinality(CellsIn(heap)) = loc[1].h
             /\ Cardinality(LiveIn(heap) \ loc[1].base) = loc[1].h + 1)
    /\ []((pc[1] = "flushed" /\ loc[1].off = 0)
          => /\ fault = "none"
             /\ loc[1].i = loc[1].h
             /\ heap[SlotOf(loc[1].buff)] = FreeBlock
             /\ LiveIn(heap) = loc[1].base)

C18_Witness ==
    /\ pc[1] = "flushed"
    /\ loc[1].off = 0
    /\ loc[1].h = 7
    /\ policy = "alt"
    /\ fault = "none"
    /\ LiveIn(heap) = loc[1].base

\* the bytes of buffer b after the first n bytes
SpareBytes(b, n) == IF b.kind = "bytes" THEN Len(b.data) - n ELSE -1

PayloadLead ==
    SubSeq(Layout(Mach(1)).ui8ValBuff.data, 1, Layout(Mach(1)).iValOffset)
PayloadTrail ==
    SubSeq(Layout(Mach(1)).ui8ValBuff.data,
           Layout(Mach(1)).iValOffset + SpecsGet(Mach(1), "ValSize") + 1,
           Len(Layout(Mach(1)).ui8ValBuff.data))

\* bytes are a run of consecutive results of rand() % 256
IsDrawn(bytes) ==
    \E s \in DOMAIN RandByteTable :
        \E k \in 0..(Len(RandByteTable[s]) - Len(bytes)) :
            SubSeq(RandByteTable[s], k + 1, k + Len(bytes)) = bytes

\* bytes are as memset(.., 0, ..) left them
IsZeroed(bytes) == \A i \in 1..Len(bytes) : bytes[i] = 0

\* C20: after every write the payload buffer is [noise][ciphered][noise]: the
\* bytes before the ciphered value and the bytes after it have both been
\* filled with drawn random bytes.
C20_NoiseBothSides ==
    (Callable /\ ~m_bEmpty /\ last.op = "=") =>
        /\ IsDrawn(PayloadLead)
        /\ IsDrawn(PayloadTrail)

\* what holds instead: the bytes before the ciphered value are drawn, the 8 to
\* 31 bytes after it are all zero
C20_TrailZeroed ==
    (Callable /\ ~m_bEmpty /\ last.op = "=") =>
        /\ IsDrawn(PayloadLead)
        /\ Len(PayloadTrail) \in 8..31
        /\ IsZeroed(PayloadTrail)

\* bit b of the integer x, 0 <= x < 2^31
BitOf(x, b) == IF b >= 31 THEN 0 ELSE (x \div (2 ^ b)) % 2

\* the bits of a CvarMasked of each width that are 1 in the mask for some
\* result of rand()
MaskBits ==
    [w \in {8, 32, 64} |->
        {b \in 0..(w - 1) : \E r \in 0..RandMax : BitOf(MaskDraw(r, w), b) = 1}]

\* C21: CvarMasked::set masks the whole width of T. For each of the 8, 32 or
\* 64 bit positions there is a result of rand() for which the mask bit is 1,
\* so that no bit of the stored word equals the bit of the value set in every
\* execution.
C21_MaskFullWidth ==
    (pc[1] = "masked") => MaskBits[loc[1].width] = 0..(loc[1].width - 1)

\* what holds instead: a uint8_t is masked over its 8 bits, a uint32_t and an
\* intptr_t over the bits rand() has; the stored word is the value set in all
\* other bits, and get() returns the value set
C21_MaskLowBits ==
    (pc[1] = "masked") =>
        /\ MaskBits[loc[1].width] =
               (IF loc[1].width = 8 THEN 0..7
                ELSE {b \in 0..(loc[1].width - 1) : BitOf(RandMax, b) = 1})
        /\ \A b \in 0..(loc[1].width - 1) :
               BitOf(loc[1].mv.val, b) # BitOf(loc[1].v, b)
                   => b \in MaskBits[loc[1].width]
        /\ CvarMasked_get(loc[1].mv) = loc[1].v

\* the slots of the key: its chain and buffer, the block of its specifications
\* and the two arrays
KeySlots ==
    ChainSlots(heap, SpecsGet(Mach(1), "KeyPtr"), SpecsGet(Mach(1), "KeyHopNbr"))
    \cup {SlotOf(SpecsBlockAddr(Mach(1), "KeyPtr")),
          SlotOf(m_arrVarAddr), SlotOf(m_arrConvert)}

\* the slots of the payload: its chain and buffer and the block of its
\* specifications
ValSlots ==
    ChainSlots(heap, SpecsGet(Mach(1), "ValPtr"), SpecsGet(Mach(1), "ValHopNbr"))
    \cup {SlotOf(SpecsBlockAddr(Mach(1), "ValPtr"))}

\* the key of machine m: its specifications and the bytes of its buffer
KeyOf(m) ==
    [iKeySize |-> SpecsGet(m, "KeySize"), iKeyOffset |-> SpecsGet(m, "KeyOffset"),
     ui8KeyHopNbr |-> SpecsGet(m, "KeyHopNbr"),
     iReadOffset |-> IF m.variant = 1 THEN 0 ELSE SpecsGet(m, "KeyReadOffset"),
     ui8KeyBuff |-> BlockAt(m.heap, _ptrUnfold(m, "KeyPtr", "KeyHopNbr").r)]

\* the first write of the value last written to a new container, in generator
\* state s
FreshWrite(s) ==
    operator_assign([Mach(s) EXCEPT !.heap = [i \in 1..ArenaSlots |-> FreeBlock],
                                    !.bEmpty = TRUE, !.arrVarAddr = 0,
                                    !.arrConvert = 0],
                    T, plain.v)

ConvertTable == ArrayData(heap, m_arrConvert, "arrConvert")
SpecsTypes == IF variant = 1 THEN 8 ELSE 4

\* the block that m_arrVarAddr gives for the specification type eType is of
\* the type the code casts it to
SlotTyped(eType) ==
    With(BlockAt(heap, _retrieveSpecs(Mach(1), eType)), LAMBDA b :
        IF variant = 1
        THEN b.kind = "CvarMasked" /\ b.width = MaskedWidth_v1(eType)
                /\ \A w \in DOMAIN Especs_v1 :
                       Especs_v1[w] = eType => SpecsWidth[w] = b.width
        ELSE /\ eType = Especs_.Val => b.kind = "SspecsVal"
             /\ eType = Especs_.Key => b.kind = "SspecsKey")

\* C23: whenever the container is initialised, m_arrConvert is a permutation
\* of the specification types (real ones and decoys): every type has exactly
\* one index, the lookup of a type finds it (it never throws "This type of
\* specification does not exist"), and the address at the index of a real
\* type is a live block of that type.
C23_ConvertIsPermutation ==
    (Callable /\ ~m_bEmpty) =>
        /\ Len(ConvertTable) = SpecsTypes
        /\ \A e \in 0..(SpecsTypes - 1) :
              /\ Cardinality({i \in 1..Len(ConvertTable) : ConvertTable[i] = e}) = 1
              /\ _getSpecsVarID(Mach(1), e) \in 0..(SpecsTypes - 1)
              /\ SlotTyped(e)
        /\ \A w \in SpecsNames : SpecsReachable(Mach(1), w)

\* an initialised container of the later variant whose table is not in the
\* order of the enumeration, the key's block sitting before the payload's
C23_Witness ==
    /\ Callable /\ ~m_bEmpty /\ variant = 2
    /\ ConvertTable # <<0, 1, 2, 3>>
    /\ _getSpecsVarID(Mach(1), Especs_.Key) < _getSpecsVarID(Mach(1), Especs_.Val)
    /\ SlotTyped(Especs_.Key) /\ SlotTyped(Especs_.Val)

\* every specification can be reached, sizes and offsets are in range
SpecsValid ==
    /\ \A w \in SpecsNames : SpecsReachable(Mach(1), w)
    /\ SpecsGet(Mach(1), "ValSize") >= 0
    /\ SpecsGet(Mach(1), "KeySize") > 0
    /\ SpecsGet(Mach(1), "ValOffset") >= 8
    /\ SpecsGet(Mach(1), "KeyOffset") >= 8
    /\ SpecsGet(Mach(1), "ValHopNbr") \in Hops
    /\ SpecsGet(Mach(1), "KeyHopNbr") \in Hops

\* C24: m_bEmpty only ever changes from true to false. Once the container is
\* initialised no assignment, read or operator makes it empty again while it
\* lives, and in every state in which m_bEmpty is false both chains lead to
\* their buffers and all specifications are valid.
C24_FlagMonotonic ==
    /\ [][(~m_bEmpty /\ alive') => ~m_bEmpty']_vars
    /\ []((alive /\ ~m_bEmpty /\ fault = "none") => (ChainsValid /\ SpecsValid))

\* a compound assignment on a container that was initialised before leaves it
\* initialised, with valid chains
C24_Witness ==
    /\ alive /\ fault = "none" /\ ~m_bEmpty
    /\ last.op = "+=" /\ ~last.empty
    /\ ChainsValid /\ SpecsValid

\* the keys of map v below k: the position of k in the iteration
KeysBelow(v, k) == Cardinality({j \in DOMAIN v : j < k})

\* C25: sizes and inverse of the serialization. The size is the length of a
\* string, 4 bytes per element of a vector, 1 + 4 bytes per entry of a map;
\* _castVal writes exactly that many bytes, element by element (pair by pair)
\* in iteration order; _return on these bytes gives the same string, the same
\* vector in the same order, a map with exactly the same pairs; the empty
\* string, vector and map included.
C25_CodecInverse ==
    (pc[1] \in {"cast", "returned"}) =>
        With(loc[1], LAMBDA l :
            /\ T = "string" => l.iSize = Len(l.v) /\ l.ui8Ptr = l.v
            /\ T = "vector" =>
                  /\ l.iSize = Len(l.v) * 4
                  /\ \A i \in 1..Len(l.v) :
                        SubSeq(l.ui8Ptr, 4 * (i - 1) + 1, 4 * i) = I32Bytes(l.v[i])
            /\ T = "map" =>
                  /\ l.iSize = Cardinality(DOMAIN l.v) * (1 + 4)
                  /\ \A k \in DOMAIN l.v :
                        SubSeq(l.ui8Ptr, 5 * KeysBelow(l.v, k) + 1,
                               5 * KeysBelow(l.v, k) + 5)
                            = <<k>> \o I32Bytes(l.v[k])
            /\ Len(l.ui8Ptr) = l.iSize
            /\ pc[1] = "returned" =>
                  /\ DOMAIN l.val = DOMAIN l.v
                  /\ \A k \in DOMAIN l.v : l.val[k] = l.v[k])

\* the vector {INT32_MAX, 0, INT32_MIN} has come back from its 12 bytes
C25_Witness ==
    /\ pc[1] = "returned" /\ T = "vector"
    /\ loc[1].v = <<INT32_MAX, 0, INT32_MIN>>
    /\ loc[1].iSize = 12
    /\ loc[1].val = <<INT32_MAX, 0, INT32_MIN>>

\* C26: every compound assignment and every increment or decrement operator
\* returns the value it wrote into the container. The postfix c++ and c--
\* return the updated value x + 1, x - 1, as the prefix forms do, not the
\* value x held before.
C26_ReturnsWritten ==
    (last.op \in CompoundOps \cup IncDecOps /\ last.ret.kind = "val") =>
        /\ last.ret = Decoded
        /\ last.ret = RetVal(NativeOp(NativeOf(last.op), last.before.v, last.arg.v))
        /\ last.op \in {"++pre", "++post"} => last.ret = RetVal(last.before.v + 1)
        /\ last.op \in {"--pre", "--post"} => last.ret = RetVal(last.before.v - 1)
        /\ last.op \in IncDecOps => last.ret # last.before

\* c++ on a container holding 0 has returned 1
C26_Witness ==
    /\ last.op = "++post"
    /\ last.before = RetVal(0)
    /\ last.ret = RetVal(1)
    /\ Decoded = RetVal(1)

\* the mutexes thread t holds
HeldBy(t) == {c \in Containers : m_mtx[c] = t}

\* thread t can take its next step
CanStep(t) ==
    \/ pc[t] \in {"idle", "conv_get", "op_body"}
    \/ pc[t] = "conv" /\ m_mtx[loc[t].y] = 0
    \/ pc[t] = "op" /\ m_mtx[loc[t].x] = 0

\* C27: no operation holds the mutexes of two containers at once. In x op y
\* the mutex of y is taken and released by the conversion before the mutex
\* of x is taken; a thread that waits for a mutex holds none, so threads
\* evaluating a op b and b op a never block each other for ever, and a op a
\* does not wait for a mutex its own thread holds.
C27_OneLockAtATime ==
    /\ \A t \in Threads :
          /\ Cardinality(HeldBy(t)) <= 1
          /\ pc[t] \in {"idle", "conv", "op"} => HeldBy(t) = {}
          /\ pc[t] = "conv_get" => HeldBy(t) = {loc[t].y}
          /\ pc[t] = "op_body" => HeldBy(t) = {loc[t].x}
    /\ \E t \in Threads : CanStep(t)
    /\ \A t \in Threads :
          ~CanStep(t) => \E u \in Threads \ {t} :
                            u \in {m_mtx[loc[t].x], m_mtx[loc[t].y]} /\ CanStep(u)

\* thread 1 in ovA + ovB holds the mutex of ovB while thread 2 in ovB + ovA
\* holds the mutex of ovA
C27_Witness ==
    /\ pc[1] = "conv_get" /\ loc[1].x = "ovA" /\ loc[1].y = "ovB"
    /\ pc[2] = "conv_get" /\ loc[2].x = "ovB" /\ loc[2].y = "ovA"
    /\ m_mtx = [ovA |-> 2, ovB |-> 1]

\* the read offset into the key: the first variant has none
KeyReadOffsetOf(m) == IF m.variant = 2 THEN SpecsGet(m, "KeyReadOffset") ELSE 0

\* the index in the key buffer used for byte i of the payload
KeyIndex(m, i) ==
    Layout(m).iKeyOffset + ((i + KeyReadOffsetOf(m)) % Layout(m).iKeySize)

\* the index in the payload buffer of byte i of the payload
ValIndex(m, i) == Layout(m).iValOffset + i

\* byte i of the payload XORed with the key byte of its index
Unciphered(m, i) ==
    Xor8(Layout(m).ui8ValBuff.data[ValIndex(m, i) + 1],
         Layout(m).ui8KeyBuff.data[KeyIndex(m, i) + 1])

\* C28: no write and no read leaves its buffers. For every byte i of the
\* stored value the key index keyOffset + ((i + readOffset) mod keySize) and
\* the payload index valueOffset + i are inside the key buffer and the payload
\* buffer; the write stored byte i of the value XORed with the key byte of that
\* index, and a read returns the stored bytes XORed with the same key bytes.
C28_IndicesInBuffers ==
    /\ fault \notin {"oob_read", "oob_write"}
    /\ (Callable /\ ~m_bEmpty) =>
          /\ \A i \in 0..(SpecsGet(Mach(1), "ValSize") - 1) :
                /\ KeyIndex(Mach(1), i) < Len(Layout(Mach(1)).ui8KeyBuff.data)
                /\ ValIndex(Mach(1), i) < Len(Layout(Mach(1)).ui8ValBuff.data)
                /\ Unciphered(Mach(1), i) = _castVal(T, PlainValue)[i + 1]
          /\ last.op = "T" =>
                last.ret = RetVal(_return(T,
                               Tuple([j \in 1..SpecsGet(Mach(1), "ValSize") |->
                                         Unciphered(Mach(1), j - 1)]),
                               SpecsGet(Mach(1), "ValSize")))

\* a read of a text whose key indices wrap around the end of the key
C28_Witness ==
    /\ Callable /\ ~m_bEmpty /\ variant = 2 /\ last.op = "T"
    /\ T = "string" /\ plain.has /\ plain.v = Str5VRqw3slHk
    /\ last.ret = RetVal(Str5VRqw3slHk)
    /\ KeyReadOffsetOf(Mach(1)) > 0
    /\ KeyReadOffsetOf(Mach(1)) + Len(Str5VRqw3slHk) > Layout(Mach(1)).iKeySize

\* C29: the destruction of a container that is still Empty is a no-op in
\* both variants: nothing is freed and no specification, translation table or
\* chain cell is read, so nothing undefined happens and the heap is untouched.
C29_EmptyDestroyNoop ==
    (~alive /\ last.op = "~" /\ last.empty)
    => (fault = "none" /\ heap = [s \in 1..ArenaSlots |-> FreeBlock])

\* what holds of the destruction of an Empty container: a no-op in the later
\* variant, a read through the uninitialised m_arrConvert in the first
C29_EmptyDestroyByVariant ==
    (~alive /\ last.op = "~" /\ last.empty)
    => /\ heap = [s \in 1..ArenaSlots |-> FreeBlock]
       /\ variant = 2 => fault = "none"
       /\ variant = 1 => fault = "wild_read"

\* C30: on a text container c == t and c != t compare the sizeof(T) bytes of
\* the std::string object just retrieved with those of the object t, not the
\* characters: c == t is true iff the two object representations are equal.
\* Equal characters are necessary for that and not sufficient; where every
\* std::string holds a pointer to its characters c == t is false for every t.
C30_TextEqualityIsBytewise ==
    (last.op \in CompareOps /\ last.ret.kind = "val")
    => /\ last.ret = RetVal((StringRep(loc[1].layout, last.before.v, VlAddr,
                                       loc[1].slackL)
                             = StringRep(loc[1].layout, last.arg.v, VrAddr,
                                         loc[1].slackR))
                            = (last.op = "=="))
       /\ last.ret = RetVal(last.op = "==") => last.before.v = last.arg.v
       /\ (loc[1].layout = "pointer" \/ Len(last.arg.v) > SsoCapacity)
             => last.ret = RetVal(last.op = "!=")

\* a text container holding "5VRqw3slHk" compared with "5VRqw3slHk": false
C30_Witness ==
    /\ last.op = "==" /\ ~last.empty
    /\ plain.has /\ plain.v = Str5VRqw3slHk
    /\ last.before = RetVal(Str5VRqw3slHk)
    /\ last.arg = RetVal(Str5VRqw3slHk)
    /\ last.ret = RetVal(FALSE)

\* C5: operations of different threads exclude each other for their whole
\* duration: at most one thread is inside an operator, nothing undefined
\* happens, a reader gets the value the container holds, and when every thread
\* is back the container holds the assigned value plus one for each c += 1
\* that was executed.
C5_MutualExclusion ==
    /\ fault = "none"
    /\ Cardinality({t \in Threads : pc[t] # "idle"}) <= 1
    /\ \A t \in Threads :
          (pc[t] = "unlock" /\ loc[t].op = "T") => loc[t].val = PlainValue
    /\ ((\A t \in Threads : pc[t] = "idle") /\ ~m_bEmpty)
       => Decoded = RetVal(PlainValue)

C5_Witness ==
    /\ \A t \in Threads : pc[t] = "idle" /\ loc[t].incs = 1
    /\ plain = [has |-> TRUE, v |-> 496 + NThreads]
    /\ Decoded = RetVal(496 + NThreads)

\* C6: every public operation runs to completion for every stored value: the
\* XOR loop of the read reaches its end and the mutex is released.
C6_ReadTerminates == (m_mtx # 0) ~> (m_mtx = 0)

====
